---- MODULE Spec2Model ----
(***************************************************************************)
(* The interception listener of proxylistener.go: the ProxyListener with   *)
(* its translator goroutine, its per-sub-listener accept workers, the      *)
(* per-socket translateConn goroutines, and the proxyConn each of them     *)
(* builds and hands to Accept.                                             *)
(*                                                                         *)
(* A client socket is a wire of bytes.  Positions 1..HdrLen hold the first *)
(* request's head (request line, header block), the next bodyLen positions *)
(* its body, the remaining positions whatever the client sends afterwards. *)
(* A goroutine that panics takes the whole process down: crashed.          *)
(***************************************************************************)
EXTENDS Integers, Sequences, FiniteSets, TLC

\* ------------------------------------------------------------- bounds
MaxListeners == 1
MaxSockets == 2
MaxNilSpawns == 1
MaxBuf == 3

\* ------------------------------------------------- program constants
ProxyStopped == 0
ProxyStarting == 1
ProxyRunning == 2
TLSHandshakeByte == 22
DefaultTLSPort == 443
DefaultPlainPort == 80
UnknownPort == 0 - 1
StatusOK == 200
\* width of Go's int on the 64-bit builds: a decimal text of 20 or more
\* digits without leading zeros is out of strconv.Atoi's range
AtoiMaxDigits == 19

\* wire layout of a first request: request line, header block
HeadTokens == <<"line", "hdrs">>
HdrLen == Len(HeadTokens)
\* the bytes a client may send after its first request: 0x16 or 'G'
ClientBytes == {TLSHandshakeByte, 71}

Subs == 1..MaxListeners
Socks == 1..MaxSockets
Chans == {"outputConnDone", "inputConnDone", "outputConns", "inputConns"}

VARIABLES
    State,            \* ProxyListener.State
    inputListeners,   \* ProxyListener.inputListeners: set of *listenerData
    nextListenerId,   \* getNextListenerId
    mtx,              \* ProxyListener.mtx: "free" or the holder
    chClosed,         \* which of the four channels are closed
    listenWg,         \* ProxyListener.listenWg
    caCert,           \* ProxyListener.caCert: "nil" or "ca"
    translator,       \* pc of the translator goroutine
    worker,           \* per sub-listener: the accept worker goroutine
    subAdded,         \* sub-listeners handed to AddListener
    subCloses,        \* per sub-listener: number of Close() calls it received
    sock,             \* per client socket: translation goroutine and proxyConn
    nextSock,         \* next client socket to connect
    nilLive,          \* live translateConn(nil) goroutines
    nilSpawned,       \* translateConn(nil) goroutines spawned so far
    closer,           \* the caller of Close()
    toClose,          \* Close's iterator over inputListeners
    consumer,         \* the caller of Accept()
    accepted,         \* sockets whose proxyConn Accept() returned, in order
    removeReturned,   \* sub-listeners for which RemoveListener has returned
    liveAtReturn,     \* goroutines still running when Close() last returned
    crashed,          \* "" or the panic that ended the process
    scripts,          \* per socket: what its client may send
    codec,            \* the address codec: the call in progress and its result
    msg,              \* a ProxyRequest or ProxyResponse and what was done to it
    store,            \* the heap of messages: a request, what it refers to, its deep clone
    dial              \* a submitRequest or wsDial call and the events on its socket

\* the state outside the listener and its connections
sideVars == <<codec, msg, store, dial>>

vars == <<State, inputListeners, nextListenerId, mtx, chClosed, listenWg,
          caCert, translator, worker, subAdded, subCloses, sock, nextSock,
          nilLive, nilSpawned, closer, toClose, consumer, accepted,
          removeReturned, liveAtReturn, crashed, scripts, sideVars>>

listenerVars == <<State, inputListeners, nextListenerId, mtx, chClosed,
                  listenWg, caCert, translator, worker, subAdded, subCloses,
                  nilLive, nilSpawned, closer, toClose, removeReturned,
                  liveAtReturn>>

\* ------------------------------------------------ client scripts, wire
Digits == {"0", "1", "2", "3", "4", "5", "6", "7", "8", "9"}

DigitVal(c) ==
    CASE c = "0" -> 0 [] c = "1" -> 1 [] c = "2" -> 2 [] c = "3" -> 3
      [] c = "4" -> 4 [] c = "5" -> 5 [] c = "6" -> 6 [] c = "7" -> 7
      [] c = "8" -> 8 [] c = "9" -> 9

Nines20 == [i \in 1..20 |-> "9"]

\* the port texts a request target may carry after "host:"
PortTexts == { <<>>, <<"0">>, <<"8", "0">>, <<"4", "4", "3">>,
               <<"6", "5", "5", "3", "5">>, <<"7", "0", "0", "0", "0">>,
               <<"-", "1">>, <<"x">>, Nines20 }

Targets ==
    {[host |-> "h", hasPort |-> FALSE, port |-> <<>>],
     [host |-> "", hasPort |-> FALSE, port |-> <<>>]}
    \cup {[host |-> "h", hasPort |-> TRUE, port |-> t] : t \in PortTexts}

Rests == {<<>>} \cup {<<a>> : a \in ClientBytes}
            \cup {<<a, b>> : a \in ClientBytes, b \in ClientBytes}

\* everything a client may do: a first request (well-formed or not), the
\* body its Content-Length announces, the bytes after it, and whether it
\* closes the socket after its last byte
WellFormedScripts ==
    {[head |-> TRUE, method |-> m, target |-> t, valid |-> TRUE,
      bodyLen |-> IF m = "POST" THEN 1 ELSE 0, rest |-> r, closes |-> c] :
        m \in {"CONNECT", "GET", "POST"}, t \in Targets, r \in Rests, c \in BOOLEAN}

\* a head http.ReadRequest cannot parse
MalformedScript ==
    [head |-> TRUE, method |-> "GET", target |-> [host |-> "h", hasPort |-> FALSE, port |-> <<>>],
     valid |-> FALSE, bodyLen |-> 0, rest |-> <<>>, closes |-> FALSE]

\* a client that connects and closes without sending anything
SilentScript ==
    [head |-> FALSE, method |-> "", target |-> [host |-> "", hasPort |-> FALSE, port |-> <<>>],
     valid |-> FALSE, bodyLen |-> 0, rest |-> <<>>, closes |-> TRUE]

AllScripts == WellFormedScripts \cup {MalformedScript, SilentScript}

\* the scripts of the listener specification: one per path through translateConn
ListenerScripts ==
    {sc \in WellFormedScripts :
        /\ sc.valid
        /\ sc.target.host = "h"
        /\ \/ sc.method = "GET" /\ ~sc.target.hasPort /\ sc.rest = <<>> /\ ~sc.closes
           \/ sc.method = "CONNECT" /\ sc.target.port = <<"4", "4", "3">>
                /\ Len(sc.rest) = 1 /\ ~sc.closes
           \/ sc.method = "CONNECT" /\ sc.target.port = <<"4", "4", "3">>
                /\ sc.rest = <<>> /\ sc.closes
           \/ sc.method = "CONNECT" /\ sc.target.port = <<"x">>
                /\ sc.rest = <<>> /\ ~sc.closes}
        \cup {SilentScript}

WireLen(sc) == IF sc.head THEN HdrLen + sc.bodyLen + Len(sc.rest) ELSE 0

WireAt(sc, i) ==
    IF i <= HdrLen THEN 0
    ELSE IF i <= HdrLen + sc.bodyLen THEN 98
    ELSE sc.rest[i - HdrLen - sc.bodyLen]

Min(a, b) == IF a <= b THEN a ELSE b

\* ------------------------------------------------------ pure functions
RECURSIVE DecimalValue(_)
DecimalValue(t) ==
    IF t = <<>> THEN 0
    ELSE 10 * DecimalValue(SubSeq(t, 1, Len(t) - 1)) + DigitVal(t[Len(t)])

AllDigits(t) == \A i \in 1..Len(t) : t[i] \in Digits

\* strconv.Atoi: an optional sign, then one or more digits, within int's range
Atoi(t) ==
    LET signed == Len(t) > 0 /\ t[1] \in {"+", "-"}
        digits == IF signed THEN SubSeq(t, 2, Len(t)) ELSE t
    IN  IF Len(digits) = 0 \/ ~AllDigits(digits) \/ Len(digits) > AtoiMaxDigits
        THEN [err |-> TRUE, val |-> 0]
        ELSE [err |-> FALSE,
              val |-> IF signed /\ t[1] = "-" THEN 0 - DecimalValue(digits)
                      ELSE DecimalValue(digits)]

\* net.SplitHostPort on request.URL.Host: fails when there is no ":port"
SplitHostPort(urlHost) ==
    IF urlHost.hasPort
    THEN [err |-> FALSE, host |-> urlHost.host, port |-> urlHost.port]
    ELSE [err |-> TRUE, host |-> "", port |-> <<>>]

NoRequest == [Method |-> "", URLHost |-> [host |-> "", hasPort |-> FALSE, port |-> <<>>],
              ContentLength |-> 0]

\* http.ReadRequest on the head of the wire: a malformed head fails, and so
\* does a target whose port is not all digits (net/url rejects it)
ReadRequest(sc) ==
    IF ~sc.valid \/ (sc.target.hasPort /\ ~AllDigits(sc.target.port))
    THEN [err |-> TRUE, req |-> NoRequest]
    ELSE [err |-> FALSE,
          req |-> [Method |-> sc.method, URLHost |-> sc.target,
                   ContentLength |-> sc.bodyLen]]

\* lines 420-434 of translateConn: host and port of the request target
ParseTarget(urlHost) ==
    LET sp == SplitHostPort(urlHost)
    IN  IF sp.err THEN [err |-> FALSE, host |-> urlHost.host, port |-> UnknownPort]
        ELSE LET a == Atoi(sp.port)
             IN  IF a.err THEN [err |-> TRUE, host |-> "", port |-> UnknownPort]
                 ELSE [err |-> FALSE, host |-> sp.host, port |-> a.val]

\* lines 458-465 of translateConn: "Guess the port if we have to"
GuessPortAlwaysPlain(port, useTLS) ==
    IF port = UnknownPort THEN DefaultPlainPort ELSE port

GuessPort(port, useTLS) ==
    IF port = UnknownPort
    THEN IF useTLS THEN DefaultTLSPort ELSE DefaultPlainPort
    ELSE port

\* the http.Response literal of line 439: ProtoMinor is not set
ConnectResponse ==
    [Status |-> "Connection established", Proto |-> "HTTP/1.1", ProtoMajor |-> 1,
     ProtoMinor |-> 0, StatusCode |-> StatusOK, ContentLength |-> 0, HasBody |-> FALSE]

\* http.Response.Write: the status line is built from ProtoMajor, ProtoMinor,
\* StatusCode and Status (Proto is not read); a response with no body and
\* ContentLength 0 carries "Content-Length: 0"
ResponseWrite(resp) ==
    [line |-> [major |-> resp.ProtoMajor, minor |-> resp.ProtoMinor,
               code |-> resp.StatusCode, text |-> resp.Status],
     headers |-> IF resp.ContentLength = 0 /\ ~resp.HasBody
                 THEN <<"Content-Length: 0">> ELSE <<>>]

WireTok(i) == [k |-> "wire", v |-> i]

\* http.Request.Write of the put-back request: request line, header block,
\* then the body, which is read through the translator's buffered reader
Serialize(req, bodyFrom) ==
    [i \in 1..HdrLen |-> [k |-> HeadTokens[i], v |-> 0]]
        \o [i \in 1..req.ContentLength |-> WireTok(bodyFrom + i)]

\* ------------------------------------------------- the address codec
DigitChar(d) ==
    CASE d = 0 -> "0" [] d = 1 -> "1" [] d = 2 -> "2" [] d = 3 -> "3"
      [] d = 4 -> "4" [] d = 5 -> "5" [] d = 6 -> "6" [] d = 7 -> "7"
      [] d = 8 -> "8" [] d = 9 -> "9"

\* the %d verb of fmt.Sprintf
RECURSIVE FormatNat(_)
FormatNat(n) ==
    IF n < 10 THEN <<DigitChar(n)>>
    ELSE FormatNat(n \div 10) \o <<DigitChar(n % 10)>>

FormatInt(n) == IF n < 0 THEN <<"-">> \o FormatNat(0 - n) ELSE FormatNat(n)

\* strings.Split(str, sep) for a one-character separator
RECURSIVE Split(_, _)
Split(str, sep) ==
    IF \A i \in 1..Len(str) : str[i] # sep THEN <<str>>
    ELSE LET k == CHOOSE i \in 1..Len(str) :
                    str[i] = sep /\ \A j \in 1..(i - 1) : str[j] # sep
         IN  <<SubSeq(str, 1, k - 1)>> \o Split(SubSeq(str, k + 1, Len(str)), sep)

\* an encoding that joins host and port with a colon
EncodeRemoteAddrColon(host, port, useTLS) ==
    host \o <<":">> \o FormatInt(port) \o <<"/">> \o FormatInt(IF useTLS THEN 1 ELSE 0)

\* EncodeRemoteAddr, lines 80-88: Sprintf("%s/%d/%d", host, port, tlsInt)
EncodeRemoteAddr(host, port, useTLS) ==
    LET tlsInt == IF useTLS THEN 1 ELSE 0
    IN  host \o <<"/">> \o FormatInt(port) \o <<"/">> \o FormatInt(tlsInt)

\* DecodeRemoteAddr, lines 90-116: the named results keep what was assigned
\* before an early return
DecodeRemoteAddr(addrStr) ==
    LET parts == Split(addrStr, "/")
    IN  IF Len(parts) # 3
        THEN [host |-> <<>>, port |-> 0, useTLS |-> FALSE, err |-> TRUE]
        ELSE LET p == Atoi(parts[2])
                 t == Atoi(parts[3])
             IN  IF p.err
                 THEN [host |-> parts[1], port |-> 0, useTLS |-> FALSE, err |-> TRUE]
                 ELSE IF t.err
                 THEN [host |-> parts[1], port |-> p.val, useTLS |-> FALSE, err |-> TRUE]
                 ELSE [host |-> parts[1], port |-> p.val, useTLS |-> t.val # 0,
                       err |-> FALSE]

\* the arguments EncodeRemoteAddr is called with
AddrHosts == {<<>>, <<"h">>, <<"h", ".", "c">>, <<"h", ":", "1">>, <<"a", "/", "b">>}

AddrPorts == {0 - 1, 0, 7, 80, 443, 65535, 70000}

\* the strings DecodeRemoteAddr is called with: one to four parts
AddrParts == {<<>>, <<"a">>, <<"x">>, <<"8", "0">>, <<"-", "5">>, <<"+", "8", "0">>,
              <<"0">>, <<"1">>, <<"2">>, <<"0", "1">>, <<"8", " ">>}

AddrStrings ==
    {a : a \in AddrParts}
        \cup {a \o <<"/">> \o b : a \in {<<"a">>}, b \in AddrParts}
        \cup {a \o <<"/">> \o b \o <<"/">> \o c :
                 a \in {<<>>, <<"a">>}, b \in AddrParts, c \in AddrParts}
        \cup {<<"a", "/">> \o b \o <<"/">> \o c \o <<"/">> \o d :
                 b \in {<<"8", "0">>}, c \in {<<"0">>, <<"1">>}, d \in {<<>>, <<"1">>}}

\* ------------------------------------- messages of proxyhttp.go, by value
\* A serialized message is a record: cl is the Content-Length line (Absent
\* when there is none), chunked the Transfer-Encoding: chunked line, body the
\* payload bytes that follow the head.
Absent == 0 - 2

FormKeys == <<"a", "b">>

FormVals == {<<"1">>}

NoValues == [k \in {FormKeys[i] : i \in 1..Len(FormKeys)} |-> <<>>]

Prefix(seq, n) == SubSeq(seq, 1, Min(n, Len(seq)))

\* the reader resetBodyReader installs: a fresh buffer over the body bytes
BodyReader(bs) == [data |-> bs, pos |-> 0]

Remaining(body) == SubSeq(body.data, body.pos + 1, Len(body.data))

RECURSIVE JoinSeq(_, _)
JoinSeq(parts, sep) ==
    IF Len(parts) = 0 THEN <<>>
    ELSE IF Len(parts) = 1 THEN parts[1]
    ELSE parts[1] \o <<sep>> \o JoinSeq(Tail(parts), sep)

\* url.Values.Encode: keys in sorted order, key=value pairs joined by &
Encode(values) ==
    LET PairsOf(k) == [i \in 1..Len(values[k]) |-> <<k, "=">> \o values[k][i]]
    IN  JoinSeq(PairsOf(FormKeys[1]) \o PairsOf(FormKeys[2]), "&")

\* url.ParseQuery on key=value pairs joined by &
ParseQuery(text) ==
    LET parts == SelectSeq(Split(text, "&"), LAMBDA q : q # <<>>)
        ValOf(q) == IF Len(Split(q, "=")) > 1 THEN Split(q, "=")[2] ELSE <<>>
    IN  [k \in DOMAIN NoValues |->
            LET mine == SelectSeq(parts, LAMBDA q : Split(q, "=")[1] = <<k>>)
            IN  [i \in 1..Len(mine) |-> ValOf(mine[i])]]

\* http.Request.Write (usingProxy picks the absolute-URI request line).
\* The length written is the ContentLength field when it is not 0; with
\* ContentLength 0 and a body reader the length is unknown and the body goes
\* out chunked (a GET whose reader is empty goes out without body).  A body
\* shorter or longer than ContentLength is an error after the bytes are out.
WriteRequest(r, usingProxy) ==
    LET rem == Remaining(r.Body)
        unknown == r.ContentLength <= 0
        chunked == r.Chunked \/ (unknown /\ (r.Method # "GET" \/ rem # <<>>))
        tcl == IF chunked THEN 0 - 1 ELSE IF unknown THEN 0 ELSE r.ContentLength
        sendCL == ~chunked /\ (tcl > 0 \/ (tcl = 0 /\ r.Method = "POST"))
    IN  [err |-> ~chunked /\ tcl # Len(rem),
         out |-> [Method |-> r.Method, absolute |-> usingProxy,
                  RawQuery |-> r.RawQuery, X |-> r.Header.X, Form |-> r.Header.Form,
                  cl |-> IF sendCL THEN tcl ELSE Absent,
                  chunked |-> chunked,
                  body |-> IF chunked THEN rem ELSE Prefix(rem, tcl)]]

\* http.ReadRequest on a serialized request
ReadRequestBytes(w) ==
    LET cl == IF w.chunked THEN 0 - 1 ELSE IF w.cl = Absent THEN 0 ELSE w.cl
    IN  [Method |-> w.Method, RawQuery |-> w.RawQuery,
         ContentLength |-> cl, Chunked |-> w.chunked,
         Header |-> [CL |-> IF w.cl = Absent \/ w.chunked THEN <<>> ELSE <<FormatInt(w.cl)>>,
                     X |-> w.X, Form |-> w.Form],
         Body |-> BodyReader(IF w.chunked THEN w.body ELSE Prefix(w.body, cl))]

\* ProxyRequest.SetBodyBytes, lines 482-491: ParseForm fills PostForm from
\* the body only while PostForm is nil; the ContentLength field is not set
SetBodyBytes(req, bs) ==
    [req EXCEPT !.bodyBytes = bs,
                !.Body = BodyReader(bs),
                !.PostFormNil = FALSE,
                !.PostForm = IF req.PostFormNil
                             THEN IF req.Method = "POST" /\ req.Header.Form
                                  THEN ParseQuery(bs) ELSE NoValues
                             ELSE req.PostForm,
                !.Header.CL = <<FormatInt(Len(bs))>>]

\* NewProxyRequest, lines 95-146, for r # nil: write, reread, load the body
NewProxyRequest(r, destHost, destPort, destUseTLS) ==
    LET httpReq2 == ReadRequestBytes(WriteRequest(r, FALSE).out)
        retReq == [Method |-> httpReq2.Method, RawQuery |-> httpReq2.RawQuery,
                   ContentLength |-> httpReq2.ContentLength,
                   Chunked |-> httpReq2.Chunked, Header |-> httpReq2.Header,
                   Body |-> httpReq2.Body,
                   DestHost |-> destHost, DestPort |-> destPort,
                   DestUseTLS |-> destUseTLS,
                   bodyBytes |-> <<>>, DbId |-> "",
                   PostFormNil |-> TRUE, PostForm |-> NoValues]
    IN  SetBodyBytes(retReq, Remaining(retReq.Body))

ProxyRequestFromBytes(b, destHost, destPort, destUseTLS) ==
    NewProxyRequest(ReadRequestBytes(b), destHost, destPort, destUseTLS)

\* ProxyRequest.Clone, lines 423-435: RepeatableWrite, reparse, then the
\* headers of the original are copied over those of the new request
Clone(req) ==
    LET newReq == ProxyRequestFromBytes(WriteRequest(req, FALSE).out,
                                        req.DestHost, req.DestPort, req.DestUseTLS)
    IN  [newReq EXCEPT !.Header = req.Header]

\* ProxyRequest.RepeatableWrite, lines 462-465: Write, then (deferred) the
\* body reader is reset
RepeatableWrite(req) ==
    [out |-> WriteRequest(req, FALSE).out,
     req |-> [req EXCEPT !.Body = BodyReader(req.bodyBytes)]]

\* http.Response.Write: with ContentLength 0 the body is probed, and a body
\* that is not empty goes out close-delimited, without Content-Length
WriteResponse(r) ==
    LET rem == Remaining(r.Body)
        cl1 == IF r.ContentLength = 0 THEN (IF rem = <<>> THEN 0 ELSE 0 - 1)
               ELSE r.ContentLength
        toEOF == r.Chunked \/ cl1 < 0
    IN  [err |-> ~toEOF /\ cl1 # Len(rem),
         out |-> [cl |-> IF toEOF THEN Absent ELSE cl1,
                  chunked |-> r.Chunked,
                  close |-> r.Close \/ (cl1 < 0 /\ ~r.Chunked),
                  X |-> r.Header.X,
                  body |-> IF toEOF THEN rem ELSE Prefix(rem, cl1)]]

\* http.ReadResponse on a serialized response
ReadResponse(w) ==
    LET cl == IF w.chunked \/ w.cl = Absent THEN 0 - 1 ELSE w.cl
    IN  [ContentLength |-> cl, Chunked |-> w.chunked, Close |-> w.close,
         Header |-> [CL |-> IF w.cl = Absent \/ w.chunked THEN <<>> ELSE <<FormatInt(w.cl)>>,
                     X |-> w.X],
         Body |-> BodyReader(IF cl < 0 THEN w.body ELSE Prefix(w.body, cl))]

\* ProxyResponse.SetBodyBytes, lines 615-619
RspSetBodyBytes(rsp, bs) ==
    [rsp EXCEPT !.bodyBytes = bs,
                !.Body = BodyReader(bs),
                !.Header.CL = <<FormatInt(Len(bs))>>]

\* NewProxyResponse, lines 158-180
NewProxyResponse(r) ==
    LET httpRsp2 == ReadResponse(WriteResponse([r EXCEPT !.Close = FALSE]).out)
        retRsp == [ContentLength |-> httpRsp2.ContentLength,
                   Chunked |-> httpRsp2.Chunked, Close |-> FALSE,
                   Header |-> httpRsp2.Header, Body |-> httpRsp2.Body,
                   bodyBytes |-> <<>>, DbId |-> ""]
    IN  RspSetBodyBytes(retRsp, Remaining(retRsp.Body))

ProxyResponseFromBytes(b) == NewProxyResponse(ReadResponse(b))

\* ProxyResponse.Clone, lines 621-629
RspClone(rsp) == ProxyResponseFromBytes(WriteResponse(rsp).out)

\* ProxyResponse.RepeatableWrite, lines 606-609
RspRepeatableWrite(rsp) ==
    [out |-> WriteResponse(rsp).out,
     rsp |-> [rsp EXCEPT !.Body = BodyReader(rsp.bodyBytes)]]

\* ----------------------------------------------------------- state
NoAddr == [Host |-> "", Port |-> UnknownPort, UseTLS |-> FALSE]

NoScript == [head |-> FALSE, method |-> "", target |-> [host |-> "", hasPort |-> FALSE, port |-> <<>>],
             valid |-> FALSE, bodyLen |-> 0, rest |-> <<>>, closes |-> FALSE]

\* the client has closed the socket: it does so after its last byte
ClientClosed(c) == c.script.closes /\ c.avail = WireLen(c.script)

Unborn ==
    [pc |-> "unborn", script |-> NoScript, avail |-> 0,
     rawPos |-> 0, caCert |-> "nil", readReq |-> FALSE, request |-> NoRequest,
     host |-> "", port |-> UnknownPort, Addr |-> NoAddr, layer |-> "raw",
     rp |-> 1, delivered |-> <<>>, clientIn |-> <<>>, rd |-> "idle",
     closed |-> FALSE, pendingRead |-> [b |-> 0, n |-> 0, err |-> FALSE]]

\* no call of the address codec is in progress
NoCodec == [pc |-> "idle"]

\* no message is under study
NoMsg == [kind |-> "none"]

\* no message is on the heap
NoStore == [pc |-> "none"]

\* no submitRequest or wsDial call is in progress
NoDial == [pc |-> "idle"]

SideIdle == codec = NoCodec /\ msg = NoMsg /\ store = NoStore /\ dial = NoDial

InitListener ==
    /\ State = ProxyRunning
    /\ inputListeners = {}
    /\ nextListenerId = 1
    /\ mtx = "free"
    /\ chClosed = [c \in Chans |-> FALSE]
    /\ listenWg = 1
    /\ caCert = "nil"
    /\ translator = "select"
    /\ worker = [l \in Subs |-> [pc |-> "none", c |-> 0]]
    /\ subAdded = {}
    /\ subCloses = [l \in Subs |-> 0]
    /\ sock = [s \in Socks |-> Unborn]
    /\ nextSock = 1
    /\ nilLive = 0
    /\ nilSpawned = 0
    /\ closer = [pc |-> "idle", returns |-> 0]
    /\ toClose = {}
    /\ consumer = [pc |-> "idle", afterClose |-> FALSE]
    /\ accepted = <<>>
    /\ removeReturned = {}
    /\ liveAtReturn = {}
    /\ crashed = ""

Init ==
    /\ InitListener
    /\ SideIdle
    /\ scripts = [s \in Socks |-> ListenerScripts]

Running == crashed = ""

\* ------------------------------------------------ goroutines, liveness
\* translateConn goroutines that have been spawned and have not returned
LiveTranslations ==
    {s \in Socks : sock[s].pc \in {"start", "read", "respond", "peek", "send"}}

LiveWorkers == {l \in Subs : worker[l].pc \in {"accept", "send"}}

LiveTasks ==
    {<<"translation", s>> : s \in LiveTranslations}
        \cup {<<"worker", l>> : l \in LiveWorkers}
        \cup (IF translator = "select" THEN {<<"translator", 0>>} ELSE {})
        \cup (IF nilLive > 0 THEN {<<"translation", 0>>} ELSE {})

\* ------------------------------------------------- ProxyListener calls
\* mapset.Set.Remove: drops the element equal to the argument, if any
SetRemove(set, elem) == set \ {elem}

ListenerData(id, l) == [tag |-> "*listenerData", Id |-> id, Listener |-> l]

NetListener(l) == [tag |-> "net.Listener", Id |-> 0, Listener |-> l]

\* AddListener: under the mutex, a new listenerData, listenWg.Add(1), the
\* accept worker goroutine, and the record into inputListeners
AddListener(l) ==
    /\ Running
    /\ l \notin subAdded
    /\ mtx = "free"
    /\ nextListenerId' = nextListenerId + 1
    /\ listenWg' = listenWg + 1
    /\ worker' = [worker EXCEPT ![l] = [pc |-> "accept", c |-> 0]]
    /\ inputListeners' = inputListeners \cup {ListenerData(nextListenerId, l)}
    /\ subAdded' = subAdded \cup {l}
    /\ UNCHANGED <<State, mtx, chClosed, caCert, translator, subCloses, sock,
                   nextSock, nilLive, nilSpawned, closer, toClose, consumer,
                   accepted, removeReturned, liveAtReturn, crashed, scripts, sideVars>>

\* RemoveListener: under the mutex, inputListeners.Remove(inlisten) and
\* inlisten.Close()
RemoveListener(l) ==
    /\ Running
    /\ l \in subAdded
    /\ l \notin removeReturned
    /\ mtx = "free"
    /\ inputListeners' = SetRemove(inputListeners, NetListener(l))
    /\ subCloses' = [subCloses EXCEPT ![l] = @ + 1]
    /\ removeReturned' = removeReturned \cup {l}
    /\ UNCHANGED <<State, nextListenerId, mtx, chClosed, listenWg, caCert,
                   translator, worker, subAdded, sock, nextSock, nilLive,
                   nilSpawned, closer, toClose, consumer, accepted,
                   liveAtReturn, crashed, scripts, sideVars>>

SetCACertificate ==
    /\ Running
    /\ mtx = "free"
    /\ caCert = "nil"
    /\ caCert' = "ca"
    /\ UNCHANGED <<State, inputListeners, nextListenerId, mtx, chClosed,
                   listenWg, translator, worker, subAdded, subCloses, sock,
                   nextSock, nilLive, nilSpawned, closer, toClose, consumer,
                   accepted, removeReturned, liveAtReturn, crashed, scripts, sideVars>>

\* Close, line 342-346: take the mutex, State = ProxyStopped
CloseLock ==
    /\ Running
    /\ closer.pc \in {"idle", "returned"}
    /\ mtx = "free"
    /\ mtx' = "Close"
    /\ State' = ProxyStopped
    /\ closer' = [closer EXCEPT !.pc = "outputConnDone"]
    /\ UNCHANGED <<inputListeners, nextListenerId, chClosed, listenWg, caCert,
                   translator, worker, subAdded, subCloses, sock, nextSock,
                   nilLive, nilSpawned, toClose, consumer, accepted,
                   removeReturned, liveAtReturn, crashed, scripts, sideVars>>

AfterChan(ch) ==
    CASE ch = "outputConnDone" -> "inputConnDone"
      [] ch = "inputConnDone" -> "outputConns"
      [] ch = "outputConns" -> "inputConns"
      [] ch = "inputConns" -> "listeners"

\* Close, lines 347-350: close(ch); closing a closed channel panics
CloseChan(ch) ==
    /\ Running
    /\ closer.pc = ch
    /\ IF chClosed[ch]
       THEN /\ crashed' = "close of closed channel"
            /\ UNCHANGED <<chClosed, closer, toClose>>
       ELSE /\ chClosed' = [chClosed EXCEPT ![ch] = TRUE]
            /\ closer' = [closer EXCEPT !.pc = AfterChan(ch)]
            /\ toClose' = IF ch = "inputConns" THEN inputListeners ELSE toClose
            /\ UNCHANGED crashed
    /\ UNCHANGED <<State, inputListeners, nextListenerId, mtx, listenWg, caCert,
                   translator, worker, subAdded, subCloses, sock, nextSock,
                   nilLive, nilSpawned, consumer, accepted, removeReturned,
                   liveAtReturn, scripts, sideVars>>

\* Close, lines 352-357: l.Listener.Close() for each record of inputListeners
CloseListener ==
    /\ Running
    /\ closer.pc = "listeners"
    /\ \E e \in toClose :
        /\ toClose' = toClose \ {e}
        /\ subCloses' = [subCloses EXCEPT ![e.Listener] = @ + 1]
    /\ UNCHANGED <<State, inputListeners, nextListenerId, mtx, chClosed,
                   listenWg, caCert, translator, worker, subAdded, sock,
                   nextSock, nilLive, nilSpawned, closer, consumer, accepted,
                   removeReturned, liveAtReturn, crashed, scripts, sideVars>>

\* a Close that closes the connections Accept has returned
CloseWaitClosingConns ==
    /\ Running
    /\ closer.pc = "listeners"
    /\ toClose = {}
    /\ listenWg = 0
    /\ mtx' = "free"
    /\ closer' = [pc |-> "returned", returns |-> 1]
    /\ liveAtReturn' = LiveTasks
    /\ sock' = [s \in Socks |->
                 IF \E i \in 1..Len(accepted) : accepted[i] = s
                 THEN [sock[s] EXCEPT !.closed = TRUE] ELSE sock[s]]
    /\ UNCHANGED <<State, inputListeners, nextListenerId, chClosed, listenWg,
                   caCert, translator, worker, subAdded, subCloses,
                   nextSock, nilLive, nilSpawned, toClose, consumer, accepted,
                   removeReturned, crashed, scripts, sideVars>>

\* Close, lines 359-360: listenWg.Wait(), then the deferred Unlock
CloseWait ==
    /\ Running
    /\ closer.pc = "listeners"
    /\ toClose = {}
    /\ listenWg = 0
    /\ mtx' = "free"
    /\ closer' = [pc |-> "returned", returns |-> 1]
    /\ liveAtReturn' = LiveTasks
    /\ UNCHANGED <<State, inputListeners, nextListenerId, chClosed, listenWg,
                   caCert, translator, worker, subAdded, subCloses, sock,
                   nextSock, nilLive, nilSpawned, toClose, consumer, accepted,
                   removeReturned, crashed, scripts, sideVars>>

\* ------------------------------------------------------ the translator
\* NewProxyListener, lines 303-305: the done channel is closed, return
TranslatorStop ==
    /\ Running
    /\ translator = "select"
    /\ chClosed["outputConnDone"]
    /\ translator' = "done"
    /\ listenWg' = listenWg - 1
    /\ UNCHANGED <<State, inputListeners, nextListenerId, mtx, chClosed, caCert,
                   worker, subAdded, subCloses, sock, nextSock, nilLive,
                   nilSpawned, closer, toClose, consumer, accepted,
                   removeReturned, liveAtReturn, crashed, scripts, sideVars>>

\* a translator that runs translateConn itself: it takes the next socket
\* only when no translation is in progress
TranslatorReceiveInline(l) ==
    /\ Running
    /\ translator = "select"
    /\ worker[l].pc = "send"
    /\ ~chClosed["inputConns"]
    /\ LiveTranslations = {}
    /\ sock' = [sock EXCEPT ![worker[l].c].pc = "start"]
    /\ worker' = [worker EXCEPT ![l] = [pc |-> "accept", c |-> 0]]
    /\ UNCHANGED <<State, inputListeners, nextListenerId, mtx, chClosed,
                   listenWg, caCert, translator, subAdded, subCloses, nextSock,
                   nilLive, nilSpawned, closer, toClose, consumer, accepted,
                   removeReturned, liveAtReturn, crashed, scripts, sideVars>>

\* lines 306-312 with line 386: an accept worker's send on inputConns meets
\* the translator's receive, which spawns translateConn(inconn) in a
\* goroutine of its own and goes back to the select
TranslatorReceive(l) ==
    /\ Running
    /\ translator = "select"
    /\ worker[l].pc = "send"
    /\ ~chClosed["inputConns"]
    /\ sock' = [sock EXCEPT ![worker[l].c].pc = "start"]
    /\ worker' = [worker EXCEPT ![l] = [pc |-> "accept", c |-> 0]]
    /\ UNCHANGED <<State, inputListeners, nextListenerId, mtx, chClosed,
                   listenWg, caCert, translator, subAdded, subCloses, nextSock,
                   nilLive, nilSpawned, closer, toClose, consumer, accepted,
                   removeReturned, liveAtReturn, crashed, scripts, sideVars>>

\* lines 306-312 on the closed inputConns: the receive yields a nil net.Conn
\* and translateConn(nil) is spawned
TranslatorReceiveNil ==
    /\ Running
    /\ translator = "select"
    /\ chClosed["inputConns"]
    /\ nilSpawned < MaxNilSpawns
    /\ nilSpawned' = nilSpawned + 1
    /\ nilLive' = nilLive + 1
    /\ UNCHANGED <<State, inputListeners, nextListenerId, mtx, chClosed,
                   listenWg, caCert, translator, worker, subAdded, subCloses,
                   sock, nextSock, closer, toClose, consumer, accepted,
                   removeReturned, liveAtReturn, crashed, scripts, sideVars>>

\* translateConn(nil): GetCACertificate under the mutex, then ReadRequest
\* fails in proxyConn.Read (line 153: no active connection)
NilTranslation ==
    /\ Running
    /\ nilLive > 0
    /\ mtx = "free"
    /\ nilLive' = nilLive - 1
    /\ UNCHANGED <<State, inputListeners, nextListenerId, mtx, chClosed,
                   listenWg, caCert, translator, worker, subAdded, subCloses,
                   sock, nextSock, nilSpawned, closer, toClose, consumer,
                   accepted, removeReturned, liveAtReturn, crashed, scripts, sideVars>>

\* ---------------------------------------------------- accept workers
\* AddListener, line 379: il.Listener.Accept() returns a client socket
SubAccept(l) ==
    /\ Running
    /\ worker[l].pc = "accept"
    /\ subCloses[l] = 0
    /\ nextSock <= MaxSockets
    /\ \E sc \in scripts[nextSock] :
        sock' = [sock EXCEPT ![nextSock] = [Unborn EXCEPT !.pc = "accepted",
                                                          !.script = sc]]
    /\ worker' = [worker EXCEPT ![l] = [pc |-> "send", c |-> nextSock]]
    /\ nextSock' = nextSock + 1
    /\ UNCHANGED <<State, inputListeners, nextListenerId, mtx, chClosed,
                   listenWg, caCert, translator, subAdded, subCloses, nilLive,
                   nilSpawned, closer, toClose, consumer, accepted,
                   removeReturned, liveAtReturn, crashed, scripts, sideVars>>

\* lines 380-384: Accept on a closed sub-listener fails, the worker returns
SubAcceptFail(l) ==
    /\ Running
    /\ worker[l].pc = "accept"
    /\ subCloses[l] > 0
    /\ worker' = [worker EXCEPT ![l] = [pc |-> "done", c |-> 0]]
    /\ listenWg' = listenWg - 1
    /\ UNCHANGED <<State, inputListeners, nextListenerId, mtx, chClosed, caCert,
                   translator, subAdded, subCloses, sock, nextSock, nilLive,
                   nilSpawned, closer, toClose, consumer, accepted,
                   removeReturned, liveAtReturn, crashed, scripts, sideVars>>

\* line 386 on the closed inputConns: send on closed channel
WorkerSendPanic(l) ==
    /\ Running
    /\ worker[l].pc = "send"
    /\ chClosed["inputConns"]
    /\ crashed' = "worker: send on closed channel"
    /\ UNCHANGED <<State, inputListeners, nextListenerId, mtx, chClosed,
                   listenWg, caCert, translator, worker, subAdded, subCloses,
                   sock, nextSock, nilLive, nilSpawned, closer, toClose,
                   consumer, accepted, removeReturned, liveAtReturn, scripts, sideVars>>

\* ------------------------------------------------------------ clients
\* the client's next segment arrives: the head of the first request comes
\* whole, with any number of the bytes that follow it
ClientSend(s) ==
    /\ Running
    /\ sock[s].pc \notin {"unborn", "failed"}
    /\ \E n \in (sock[s].avail + 1)..WireLen(sock[s].script) :
        /\ n >= HdrLen
        /\ sock' = [sock EXCEPT ![s].avail = n]
    /\ UNCHANGED <<listenerVars, nextSock, consumer, accepted, crashed, scripts, sideVars>>

\* ------------------------------------------------------- translateConn
\* lines 407-408: NewProxyConn, SetCACertificate(GetCACertificate())
TranslateStart(s) ==
    /\ Running
    /\ sock[s].pc = "start"
    /\ mtx = "free"
    /\ sock' = [sock EXCEPT ![s].pc = "read", ![s].caCert = caCert]
    /\ UNCHANGED <<listenerVars, nextSock, consumer, accepted, crashed, scripts, sideVars>>

\* lines 414-434 and, for a request that is not CONNECT, 452-468: the
\* buffered reader takes every byte that has arrived, the head is parsed,
\* host and port are derived; a non-CONNECT request is put back
TranslateRead(s) ==
    /\ Running
    /\ sock[s].pc = "read"
    /\ sock[s].avail >= HdrLen
    /\ LET c  == sock[s]
           rr == ReadRequest(c.script)
           pt == ParseTarget(rr.req.URLHost)
       IN  sock' = [sock EXCEPT ![s] =
             IF rr.err \/ pt.err
             THEN [c EXCEPT !.pc = "failed", !.rawPos = c.avail]
             ELSE IF rr.req.Method = "CONNECT"
             THEN [c EXCEPT !.pc = "respond", !.rawPos = c.avail,
                            !.request = rr.req, !.host = pt.host,
                            !.port = pt.port]
             ELSE [c EXCEPT !.pc = "send", !.rawPos = c.avail,
                            !.rp = c.avail + 1,
                            !.request = rr.req, !.host = pt.host,
                            !.port = pt.port, !.readReq = TRUE,
                            !.Addr = [Host |-> pt.host,
                                      Port |-> GuessPort(pt.port, FALSE),
                                      UseTLS |-> FALSE]]]
    /\ UNCHANGED <<listenerVars, nextSock, consumer, accepted, crashed, scripts, sideVars>>

\* lines 414-418: the client closed before a whole head arrived
TranslateReadEOF(s) ==
    /\ Running
    /\ sock[s].pc = "read"
    /\ ClientClosed(sock[s])
    /\ sock[s].avail < HdrLen
    /\ sock' = [sock EXCEPT ![s].pc = "failed"]
    /\ UNCHANGED <<listenerVars, nextSock, consumer, accepted, crashed, scripts, sideVars>>

\* lines 437-444: resp.Write(inconn); the write may fail once the client
\* has closed the socket
TranslateRespond(s) ==
    /\ Running
    /\ sock[s].pc = "respond"
    /\ \/ sock' = [sock EXCEPT ![s].pc = "peek",
                               ![s].clientIn = <<ResponseWrite(ConnectResponse)>>]
       \/ /\ ClientClosed(sock[s])
          /\ sock' = [sock EXCEPT ![s].pc = "failed"]
    /\ UNCHANGED <<listenerVars, nextSock, consumer, accepted, crashed, scripts, sideVars>>

\* proxyConn.StartMaybeTLS, lines 209-237, on the byte its new buffered
\* reader peeks: panic is the dereference of a nil caCert (line 222)
StartMaybeTLS(byte, ca, signOk) ==
    IF byte = TLSHandshakeByte
    THEN IF ca = "nil"
         THEN [panic |-> TRUE, err |-> FALSE, usedTLS |-> FALSE, layer |-> "raw"]
         ELSE IF ~signOk
         THEN [panic |-> FALSE, err |-> TRUE, usedTLS |-> FALSE, layer |-> "raw"]
         ELSE [panic |-> FALSE, err |-> FALSE, usedTLS |-> TRUE, layer |-> "tls"]
    ELSE [panic |-> FALSE, err |-> FALSE, usedTLS |-> FALSE, layer |-> "buf"]

\* lines 446-468: StartMaybeTLS on the first byte the translator's reader has
\* not taken; its buffered reader takes every byte that has arrived;
\* SignHost may fail; then the port is guessed and the descriptor set
TranslateMaybeTLS(s) ==
    /\ Running
    /\ sock[s].pc = "peek"
    /\ sock[s].avail > sock[s].rawPos
    /\ \E signOk \in BOOLEAN :
        LET c == sock[s]
            r == StartMaybeTLS(WireAt(c.script, c.rawPos + 1), c.caCert, signOk)
        IN  IF r.panic
            THEN /\ crashed' = "translation: nil caCert dereference"
                 /\ UNCHANGED sock
            ELSE /\ UNCHANGED crashed
                 /\ sock' = [sock EXCEPT ![s] =
                      IF r.err
                      THEN [c EXCEPT !.pc = "failed", !.rawPos = c.avail]
                      ELSE [c EXCEPT !.pc = "send", !.layer = r.layer,
                                     !.rp = c.rawPos + 1, !.rawPos = c.avail,
                                     !.Addr = [Host |-> c.host,
                                               Port |-> GuessPort(c.port, r.usedTLS),
                                               UseTLS |-> r.usedTLS]]]
    /\ UNCHANGED <<listenerVars, nextSock, consumer, accepted, scripts, sideVars>>

\* lines 209-212: Peek fails, the client closed and sent nothing more
TranslatePeekEOF(s) ==
    /\ Running
    /\ sock[s].pc = "peek"
    /\ ClientClosed(sock[s])
    /\ sock[s].avail = sock[s].rawPos
    /\ sock' = [sock EXCEPT ![s].pc = "failed"]
    /\ UNCHANGED <<listenerVars, nextSock, consumer, accepted, crashed, scripts, sideVars>>

\* line 478 on the closed outputConns: send on closed channel
TranslateSendPanic(s) ==
    /\ Running
    /\ sock[s].pc = "send"
    /\ chClosed["outputConns"]
    /\ crashed' = "translation: send on closed channel"
    /\ UNCHANGED <<listenerVars, sock, nextSock, consumer, accepted, scripts, sideVars>>

\* -------------------------------------------------------------- Accept
\* Accept, lines 323-331: the channels are set, enter the select
AcceptCall ==
    /\ Running
    /\ consumer.pc = "idle"
    /\ consumer' = [pc |-> "select", afterClose |-> closer.returns > 0]
    /\ UNCHANGED <<listenerVars, sock, nextSock, accepted, crashed, scripts, sideVars>>

\* lines 332-334: outputConnDone is closed
AcceptClosed ==
    /\ Running
    /\ consumer.pc = "select"
    /\ chClosed["outputConnDone"]
    /\ consumer' = [pc |-> "idle", afterClose |-> FALSE]
    /\ UNCHANGED <<listenerVars, sock, nextSock, accepted, crashed, scripts, sideVars>>

\* lines 335-337 with line 478: a translation's send on outputConns meets
\* the receive; the connection is returned
AcceptConn(s) ==
    /\ Running
    /\ consumer.pc = "select"
    /\ sock[s].pc = "send"
    /\ ~chClosed["outputConns"]
    /\ sock' = [sock EXCEPT ![s].pc = "surfaced"]
    /\ consumer' = [pc |-> "idle", afterClose |-> FALSE]
    /\ accepted' = Append(accepted, s)
    /\ UNCHANGED <<listenerVars, nextSock, crashed, scripts, sideVars>>

\* lines 335-336 on the closed outputConns: the receive yields a nil
\* ProxyConn and c.Id() dereferences it
AcceptNil ==
    /\ Running
    /\ consumer.pc = "select"
    /\ chClosed["outputConns"]
    /\ consumer' = [consumer EXCEPT !.pc = "panicked"]
    /\ crashed' = "Accept: nil ProxyConn dereference"
    /\ UNCHANGED <<listenerVars, sock, nextSock, accepted, scripts, sideVars>>

\* ------------------------------------------------------ proxyConn.Read
Accepted == {accepted[i] : i \in 1..Len(accepted)}

\* lines 142-152: the pending request is written to a scratch buffer and
\* at most len(b) bytes of it are copied
ReadPending(req, blen) ==
    LET ser == Serialize(req, HdrLen)
    IN  SubSeq(ser, 1, Min(blen, Len(ser)))

\* the tokens the wrapped stream hands up for wire positions from..to
StreamTokens(layer, from, to) ==
    [i \in 1..(to - from + 1) |->
        [k |-> IF layer = "tls" THEN "tls" ELSE "wire", v |-> from + i - 1]]

\* Read with a pending request, lines 142-152.  Request.Write reads the body
\* through the translator's buffered reader: the part of it that reader has
\* not taken it reads from the proxyConn itself, while readReq is still set,
\* and that Read never returns.  pendingRead keeps len(b) and what the Read
\* returned, (n, err)
ConnReadPending(s, blen) ==
    /\ Running
    /\ s \in Accepted
    /\ sock[s].rd = "idle"
    /\ sock[s].readReq
    /\ LET c == sock[s]
       IN  sock' = [sock EXCEPT ![s] =
             IF c.rawPos >= HdrLen + c.request.ContentLength
             THEN [c EXCEPT !.readReq = FALSE,
                            !.delivered = @ \o ReadPending(c.request, blen),
                            !.pendingRead = [b |-> blen,
                                             n |-> Len(ReadPending(c.request, blen)),
                                             err |-> FALSE]]
             ELSE [c EXCEPT !.rd = "hung", !.pendingRead.b = blen]]
    /\ UNCHANGED <<listenerVars, nextSock, consumer, accepted, crashed, scripts, sideVars>>

\* Read without a pending request, lines 153-156: forwarded to the wrapped
\* stream (the socket, the bufferedConn over it, or the TLS session over
\* that), which hands up bytes from its buffer first
ConnReadStream(s, blen) ==
    /\ Running
    /\ s \in Accepted
    /\ sock[s].rd = "idle"
    /\ ~sock[s].readReq
    /\ LET c == sock[s]
           buffered == c.layer # "raw" /\ c.rp <= c.rawPos
           last == IF buffered THEN c.rawPos ELSE c.avail
           n == Min(blen, last - c.rp + 1)
       IN  /\ n > 0
           /\ buffered \/ ~c.closed
           /\ sock' = [sock EXCEPT ![s] =
                [c EXCEPT !.delivered = @ \o StreamTokens(c.layer, c.rp, c.rp + n - 1),
                          !.rp = c.rp + n,
                          !.rawPos = IF buffered THEN c.rawPos ELSE c.avail]]
    /\ UNCHANGED <<listenerVars, nextSock, consumer, accepted, crashed, scripts, sideVars>>

\* proxyConn.Close, lines 163-165: the consumer closes the wrapped stream
ConsumerClose(s) ==
    /\ Running
    /\ s \in Accepted
    /\ ~sock[s].closed
    /\ sock' = [sock EXCEPT ![s].closed = TRUE]
    /\ UNCHANGED <<listenerVars, nextSock, consumer, accepted, crashed, scripts, sideVars>>

\* ------------------------------------------------------- specification
Next ==
    \/ \E l \in Subs : AddListener(l)
    \/ \E l \in Subs : RemoveListener(l)
    \/ SetCACertificate
    \/ CloseLock
    \/ \E ch \in Chans : CloseChan(ch)
    \/ CloseListener
    \/ CloseWait
    \/ TranslatorStop
    \/ \E l \in Subs : TranslatorReceive(l)
    \/ TranslatorReceiveNil
    \/ NilTranslation
    \/ \E l \in Subs : SubAccept(l)
    \/ \E l \in Subs : SubAcceptFail(l)
    \/ \E l \in Subs : WorkerSendPanic(l)
    \/ \E s \in Socks : ClientSend(s)
    \/ \E s \in Socks : TranslateStart(s)
    \/ \E s \in Socks : TranslateRead(s)
    \/ \E s \in Socks : TranslateReadEOF(s)
    \/ \E s \in Socks : TranslateRespond(s)
    \/ \E s \in Socks : TranslateMaybeTLS(s)
    \/ \E s \in Socks : TranslatePeekEOF(s)
    \/ \E s \in Socks : TranslateSendPanic(s)
    \/ AcceptCall
    \/ AcceptClosed
    \/ \E s \in Socks : AcceptConn(s)
    \/ AcceptNil

Spec == Init /\ [][Next]_vars

\* ------------------------------------- one connection, every client
\* the listener with one sub-listener and one client socket, whose client
\* may play any script, and a consumer that reads what Accept returned
InitConn ==
    /\ InitListener
    /\ SideIdle
    /\ scripts = [s \in Socks |-> IF s = 1 THEN AllScripts ELSE {}]

NextConn ==
    \/ AddListener(1)
    \/ SetCACertificate
    \/ TranslatorReceive(1)
    \/ SubAccept(1)
    \/ ClientSend(1)
    \/ TranslateStart(1)
    \/ TranslateRead(1)
    \/ TranslateReadEOF(1)
    \/ TranslateRespond(1)
    \/ TranslateMaybeTLS(1)
    \/ TranslatePeekEOF(1)
    \/ AcceptCall
    \/ AcceptConn(1)
    \/ \E blen \in 1..MaxBuf : ConnReadPending(1, blen)
    \/ \E blen \in 1..MaxBuf : ConnReadStream(1, blen)

SpecConn == InitConn /\ [][NextConn]_vars

\* ------------------------------- translations that block, and the rest
\* clients that never complete what a translation waits for: one that sends
\* nothing and keeps the socket open, one that sends CONNECT and nothing after
SilentOpenScript == [SilentScript EXCEPT !.closes = FALSE]

\* a client whose bytes let translateConn run to its end: a GET, or a
\* CONNECT followed by a byte that is not a TLS handshake
Complete(sc) ==
    /\ sc.head
    /\ sc.valid
    /\ sc.method = "CONNECT" => sc.rest # <<>>

StallScripts ==
    {sc \in WellFormedScripts :
        /\ sc.target = [host |-> "h", hasPort |-> FALSE, port |-> <<>>]
        /\ ~sc.closes
        /\ \/ sc.method = "GET" /\ sc.rest = <<>>
           \/ sc.method = "CONNECT" /\ sc.rest \in {<<>>, <<71>>}}
        \cup {SilentOpenScript}

\* a client that keeps to the CONNECT exchange: it sends what follows its
\* CONNECT only after the answer to it has been written
ClientSendInTurn(s) ==
    /\ ClientSend(s)
    /\ sock[s].script.method = "CONNECT" =>
          (sock[s].clientIn # <<>> \/ sock'[s].avail = HdrLen)

InitStall ==
    /\ InitListener
    /\ SideIdle
    /\ scripts = [s \in Socks |-> StallScripts]

NextStall ==
    \/ \E l \in Subs : AddListener(l)
    \/ \E l \in Subs : SubAccept(l)
    \/ \E l \in Subs : TranslatorReceive(l)
    \/ \E s \in Socks : ClientSendInTurn(s)
    \/ \E s \in Socks : TranslateStart(s)
    \/ \E s \in Socks : TranslateRead(s)
    \/ \E s \in Socks : TranslateRespond(s)
    \/ \E s \in Socks : TranslateMaybeTLS(s)
    \/ AcceptCall
    \/ \E s \in Socks : AcceptConn(s)

\* The goroutines are scheduled fairly: the translator's select, each
\* translateConn, the receive in Accept.  A client with a complete script
\* sends all of it.  Nothing makes a client connect, the other clients send,
\* or the consumer call Accept.
FairStall ==
    /\ \A l \in Subs : WF_vars(TranslatorReceive(l))
    /\ \A s \in Socks :
        /\ WF_vars(TranslateStart(s))
        /\ WF_vars(TranslateRead(s))
        /\ WF_vars(TranslateRespond(s))
        /\ WF_vars(TranslateMaybeTLS(s))
        /\ WF_vars(Complete(sock[s].script) /\ ClientSendInTurn(s))
    /\ WF_vars(\E s \in Socks : AcceptConn(s))

SpecStall == InitStall /\ [][NextStall]_vars /\ FairStall

\* ------------------- the listener's calls against a returned connection
\* one client socket; the consumer reads and closes what Accept returned
\* while the listener is closed and its sub-listener removed
InitLife ==
    /\ InitListener
    /\ SideIdle
    /\ scripts = [s \in Socks |-> IF s = 1 THEN ListenerScripts ELSE {}]

NextLife ==
    \/ Next
    \/ \E s \in Socks : ConsumerClose(s)
    \/ \E s \in Socks, blen \in 1..MaxBuf : ConnReadPending(s, blen)
    \/ \E s \in Socks, blen \in 1..MaxBuf : ConnReadStream(s, blen)

SpecLife == InitLife /\ [][NextLife]_vars

\* ------------------------------------------------ calls of the codec
interceptVars == <<listenerVars, sock, nextSock, consumer, accepted, crashed, scripts>>

\* EncodeRemoteAddr(host, port, useTLS) is called
EncodeCall(host, port, useTLS) ==
    /\ codec.pc = "idle"
    /\ codec' = [pc |-> "encoded", host |-> host, port |-> port, useTLS |-> useTLS,
                 str |-> EncodeRemoteAddr(host, port, useTLS)]
    /\ UNCHANGED <<interceptVars, msg, store, dial>>

\* DecodeRemoteAddr is called on what EncodeRemoteAddr returned
DecodeEncoded ==
    /\ codec.pc = "encoded"
    /\ codec' = [codec EXCEPT !.pc = "roundtrip"]
                   @@ [out |-> DecodeRemoteAddr(codec.str)]
    /\ UNCHANGED <<interceptVars, msg, store, dial>>

\* DecodeRemoteAddr is called on a string from elsewhere
DecodeCall(str) ==
    /\ codec.pc = "idle"
    /\ codec' = [pc |-> "decoded", str |-> str, out |-> DecodeRemoteAddr(str)]
    /\ UNCHANGED <<interceptVars, msg, store, dial>>

CodecReturn ==
    /\ codec.pc \in {"roundtrip", "decoded"}
    /\ codec' = NoCodec
    /\ UNCHANGED <<interceptVars, msg, store, dial>>

InitAddr ==
    /\ InitListener
    /\ SideIdle
    /\ scripts = [s \in Socks |-> {}]

NextAddr ==
    \/ \E host \in AddrHosts, port \in AddrPorts, useTLS \in BOOLEAN :
          EncodeCall(host, port, useTLS)
    \/ DecodeEncoded
    \/ \E str \in AddrStrings : DecodeCall(str)
    \/ CodecReturn

SpecAddr == InitAddr /\ [][NextAddr]_vars

\* ------------------------------------- calls on one message, by value
MaxFormValues == 2

\* the serialized requests and responses the message under study is built from
RequestBytes ==
    {[Method |-> "GET", absolute |-> FALSE, RawQuery |-> <<>>, X |-> "x0",
      Form |-> FALSE, cl |-> Absent, chunked |-> FALSE, body |-> <<>>],
     [Method |-> "POST", absolute |-> FALSE, RawQuery |-> <<"a", "=", "1">>, X |-> "x0",
      Form |-> TRUE, cl |-> 3, chunked |-> FALSE, body |-> <<"b", "=", "1">>],
     [Method |-> "POST", absolute |-> FALSE, RawQuery |-> <<>>, X |-> "x0",
      Form |-> FALSE, cl |-> 2, chunked |-> FALSE, body |-> <<"x", "y">>],
     [Method |-> "POST", absolute |-> FALSE, RawQuery |-> <<>>, X |-> "x0",
      Form |-> FALSE, cl |-> Absent, chunked |-> TRUE, body |-> <<"x", "y">>]}

ResponseBytes ==
    {[cl |-> 2, chunked |-> FALSE, close |-> FALSE, X |-> "x0", body |-> <<"x", "y">>],
     [cl |-> 0, chunked |-> FALSE, close |-> FALSE, X |-> "x0", body |-> <<>>],
     [cl |-> Absent, chunked |-> FALSE, close |-> TRUE, X |-> "x0", body |-> <<"x", "y">>],
     [cl |-> Absent, chunked |-> TRUE, close |-> FALSE, X |-> "x0", body |-> <<"x", "y">>]}

\* the arguments of SetBodyBytes
BodyTexts == {<<>>, <<"x">>, <<"x", "y", "z">>, <<"a", "=", "1", "&", "b", "=", "1", "1">>}

\* a mutator returned: the outputs written so far are those of another state
Mutated(kind, obj, set) ==
    [kind |-> kind, obj |-> obj, outs |-> <<>>, pre |-> obj, lastSet |-> set]

SetBodyBytesCall(bs) ==
    /\ msg.kind \in {"req", "rsp"}
    /\ msg' = Mutated(msg.kind,
                      IF msg.kind = "req" THEN SetBodyBytes(msg.obj, bs)
                      ELSE RspSetBodyBytes(msg.obj, bs),
                      <<bs>>)
    /\ UNCHANGED <<interceptVars, codec, store, dial>>

\* SetPostParameter, lines 507-510
SetPostParameterCall(key, value) ==
    /\ msg.kind = "req"
    /\ LET form == [msg.obj.PostForm EXCEPT ![key] = <<value>>]
       IN  msg' = Mutated("req", SetBodyBytes([msg.obj EXCEPT !.PostForm = form],
                                              Encode(form)), <<>>)
    /\ UNCHANGED <<interceptVars, codec, store, dial>>

\* AddPostParameter, lines 512-515
AddPostParameterCall(key, value) ==
    /\ msg.kind = "req"
    /\ Len(msg.obj.PostForm[key]) < MaxFormValues
    /\ LET form == [msg.obj.PostForm EXCEPT ![key] = Append(@, value)]
       IN  msg' = Mutated("req", SetBodyBytes([msg.obj EXCEPT !.PostForm = form],
                                              Encode(form)), <<>>)
    /\ UNCHANGED <<interceptVars, codec, store, dial>>

\* DeletePostParameter, lines 517-520
DeletePostParameterCall(key) ==
    /\ msg.kind = "req"
    /\ LET form == [msg.obj.PostForm EXCEPT ![key] = <<>>]
       IN  msg' = Mutated("req", SetBodyBytes([msg.obj EXCEPT !.PostForm = form],
                                              Encode(form)), <<>>)
    /\ UNCHANGED <<interceptVars, codec, store, dial>>

\* SetURLParameter, AddURLParameter, DeleteURLParameter, lines 522-546:
\* the query is parsed, changed and encoded back into URL.RawQuery
URLParameterCall(op, key, value) ==
    /\ msg.kind = "req"
    /\ LET q == ParseQuery(msg.obj.RawQuery)
           q2 == CASE op = "set" -> [q EXCEPT ![key] = <<value>>]
                   [] op = "add" -> [q EXCEPT ![key] = Append(@, value)]
                   [] op = "del" -> [q EXCEPT ![key] = <<>>]
       IN  /\ op = "add" => Len(q[key]) < MaxFormValues
           /\ msg' = Mutated("req", [msg.obj EXCEPT !.RawQuery = Encode(q2)], <<>>)
    /\ UNCHANGED <<interceptVars, codec, store, dial>>

\* Clone and DeepClone (lines 423-455, 621-638): the call returns a new
\* message, which is the one under study from here on
CloneCall(deep) ==
    /\ msg.kind \in {"req", "rsp"}
    /\ LET new == IF msg.kind = "req" THEN Clone(msg.obj) ELSE RspClone(msg.obj)
       IN  msg' = Mutated(msg.kind,
                          IF deep THEN [new EXCEPT !.DbId = msg.obj.DbId] ELSE new,
                          <<>>)
    /\ UNCHANGED <<interceptVars, codec, store, dial>>

\* FullMessage, lines 493-497 and 649-653: RepeatableWrite into a buffer
FullMessageCall ==
    /\ msg.kind \in {"req", "rsp"}
    /\ Len(msg.outs) < 2
    /\ LET w == IF msg.kind = "req"
                THEN [out |-> RepeatableWrite(msg.obj).out, obj |-> RepeatableWrite(msg.obj).req]
                ELSE [out |-> RspRepeatableWrite(msg.obj).out, obj |-> RspRepeatableWrite(msg.obj).rsp]
       IN  msg' = [msg EXCEPT !.outs = Append(@, w.out), !.pre = msg.obj,
                              !.obj = w.obj, !.lastSet = <<>>]
    /\ UNCHANGED <<interceptVars, codec, store, dial>>

InitMsg ==
    /\ InitListener
    /\ codec = NoCodec
    /\ store = NoStore
    /\ dial = NoDial
    /\ scripts = [s \in Socks |-> {}]
    /\ msg \in {Mutated("req", ProxyRequestFromBytes(b, "h", DefaultPlainPort, FALSE), <<>>) :
                  b \in RequestBytes}
             \cup {Mutated("rsp", ProxyResponseFromBytes(b), <<>>) : b \in ResponseBytes}

NextMsg ==
    \/ \E bs \in BodyTexts : SetBodyBytesCall(bs)
    \/ \E k \in DOMAIN NoValues, v \in FormVals : SetPostParameterCall(k, v)
    \/ \E k \in DOMAIN NoValues, v \in FormVals : AddPostParameterCall(k, v)
    \/ \E k \in DOMAIN NoValues : DeletePostParameterCall(k)
    \/ \E op \in {"set", "add", "del"}, k \in DOMAIN NoValues, v \in FormVals :
          URLParameterCall(op, k, v)
    \/ \E deep \in BOOLEAN : CloneCall(deep)
    \/ FullMessageCall

SpecMsg == InitMsg /\ [][NextMsg]_vars

\* ------------------------------------------ the header map of a request
\* Header names and values are texts, sequences of one-character strings.
\* The map holds the names as they are stored: http.ReadRequest stores them
\* in canonical form ("Upgrade"), an assignment to req.Header[k] stores k as
\* given ("upgrade").
UpperToLower ==
    ("U" :> "u") @@ ("W" :> "w") @@ ("S" :> "s") @@ ("C" :> "c") @@ ("P" :> "p")
        @@ ("A" :> "a") @@ ("E" :> "e")

\* strings.ToLower
ToLower(str) ==
    [i \in 1..Len(str) |-> IF str[i] \in DOMAIN UpperToLower
                           THEN UpperToLower[str[i]] ELSE str[i]]

\* strings.Contains
Contains(str, substr) ==
    \E i \in 0..(Len(str) - Len(substr)) : SubSeq(str, i + 1, i + Len(substr)) = substr

websocket == <<"w", "e", "b", "s", "o", "c", "k", "e", "t">>

upgrade == <<"u", "p", "g", "r", "a", "d", "e">>

Upgrade == <<"U", "p", "g", "r", "a", "d", "e">>

Connection == <<"C", "o", "n", "n", "e", "c", "t", "i", "o", "n">>

AcceptEncoding == <<"A", "c", "c", "e", "p", "t", "-", "E", "n", "c", "o", "d", "i", "n", "g">>

ProxyConnection == <<"P", "r", "o", "x", "y", "-">> \o Connection

ProxyAuthenticate ==
    <<"P", "r", "o", "x", "y", "-", "A", "u", "t", "h", "e", "n", "t", "i", "c", "a", "t", "e">>

ProxyAuthorization ==
    <<"P", "r", "o", "x", "y", "-", "A", "u", "t", "h", "o", "r", "i", "z", "a", "t", "i", "o", "n">>

\* the values an Upgrade header carries in the requests under study
UpgradeValues ==
    {websocket,
     <<"W", "e", "b", "S", "o", "c", "k", "e", "t">>,
     <<"h", "2", "c", ",">> \o websocket,
     <<"h", "2", "c">>}

\* http.Header.Set with a name in canonical form: the values are replaced
HeaderSet(h, key, value) ==
    [k \in DOMAIN h \cup {key} |-> IF k = key THEN <<value>> ELSE h[k]]

\* http.Header.Del with a name in canonical form
HeaderDel(h, key) == [k \in DOMAIN h \ {key} |-> h[k]]

\* a header map holding one value for each name of names
HeaderOf(names, valueOf) == [k \in names |-> <<valueOf[k]>>]

\* a request that answers every header value with "websocket" in any case
IsWSUpgradeAnyCase(req) ==
    \E k \in DOMAIN req.Header : \E i \in 1..Len(req.Header[k]) :
        ToLower(k) = upgrade /\ Contains(ToLower(req.Header[k][i]), websocket)

\* ProxyRequest.IsWSUpgrade, lines 389-398
IsWSUpgrade(req) ==
    \E k \in DOMAIN req.Header : \E i \in 1..Len(req.Header[k]) :
        ToLower(k) = upgrade /\ Contains(req.Header[k][i], websocket)

\* ProxyRequest.DestScheme, lines 202-216
DestScheme(req) ==
    IF IsWSUpgrade(req)
    THEN (IF req.DestUseTLS THEN "wss" ELSE "ws")
    ELSE (IF req.DestUseTLS THEN "https" ELSE "http")

\* ProxyRequest.StripProxyHeaders, lines 400-408
StripProxyHeaders(req) ==
    LET h0 == IF ~IsWSUpgrade(req) THEN HeaderDel(req.Header, Connection) ELSE req.Header
        h1 == HeaderDel(h0, AcceptEncoding)
        h2 == HeaderDel(h1, ProxyConnection)
        h3 == HeaderDel(h2, ProxyAuthenticate)
    IN  [req EXCEPT !.Header = HeaderDel(h3, ProxyAuthorization)]

\* ProxyCredentials.SerializeHeader: the value of the header for the
\* credentials, "Basic ..."
SerializeHeader == <<"B", "a", "s", "i", "c">>

\* ProxyRequest.RepeatableProxyWrite, lines 467-475: with credentials the
\* header is set, WriteProxy writes the request (failing or not), then the
\* deferred calls run: the header is deleted, the body reader is reset
RepeatableProxyWrite(req, withCreds, writeOk) ==
    LET during == IF withCreds
                  THEN HeaderSet(req.Header, ProxyAuthorization, SerializeHeader)
                  ELSE req.Header
        after == IF withCreds THEN HeaderDel(during, ProxyAuthorization) ELSE during
    IN  [err |-> ~writeOk,
         out |-> IF writeOk THEN <<[Header |-> during, body |-> Remaining(req.Body)]>>
                 ELSE <<>>,
         req |-> [req EXCEPT !.Header = after, !.Body = BodyReader(req.bodyBytes)]]

\* a call on the request returned ret and left the request as req
Called(call, pre, req, ret) ==
    [kind |-> "hdr", call |-> call, pre |-> pre, req |-> req, ret |-> ret]

IsWSUpgradeCall ==
    /\ msg.kind = "hdr"
    /\ msg' = Called("IsWSUpgrade", msg.req, msg.req, IsWSUpgrade(msg.req))
    /\ UNCHANGED <<interceptVars, codec, store, dial>>

DestSchemeCall ==
    /\ msg.kind = "hdr"
    /\ msg' = Called("DestScheme", msg.req, msg.req, DestScheme(msg.req))
    /\ UNCHANGED <<interceptVars, codec, store, dial>>

StripProxyHeadersCall ==
    /\ msg.kind = "hdr"
    /\ msg' = Called("StripProxyHeaders", msg.req, StripProxyHeaders(msg.req), "")
    /\ UNCHANGED <<interceptVars, codec, store, dial>>

RepeatableProxyWriteCall(withCreds, writeOk) ==
    /\ msg.kind = "hdr"
    /\ LET w == RepeatableProxyWrite(msg.req, withCreds, writeOk)
       IN  msg' = Called("RepeatableProxyWrite", msg.req, w.req,
                         [err |-> w.err, out |-> w.out, withCreds |-> withCreds])
    /\ UNCHANGED <<interceptVars, codec, store, dial>>

\* the requests under study: an Upgrade header under either spelling of its
\* name or none, and any of the headers the calls touch
InitHdr ==
    /\ InitListener
    /\ codec = NoCodec
    /\ store = NoStore
    /\ dial = NoDial
    /\ scripts = [s \in Socks |-> {}]
    /\ \E up \in SUBSET {Upgrade, upgrade}, v \in UpgradeValues,
          others \in SUBSET {Connection, ProxyAuthorization, AcceptEncoding},
          destUseTLS \in BOOLEAN :
          /\ Cardinality(up) <= 1
          /\ LET valueOf == [k \in up \cup others |->
                                IF k \in up THEN v
                                ELSE IF k = Connection THEN Upgrade ELSE <<"x">>]
                 req == [Header |-> HeaderOf(up \cup others, valueOf),
                         DestUseTLS |-> destUseTLS,
                         bodyBytes |-> <<"x">>, Body |-> BodyReader(<<"x">>)]
             IN  msg = Called("", req, req, "")

NextHdr ==
    \/ IsWSUpgradeCall
    \/ DestSchemeCall
    \/ StripProxyHeadersCall
    \/ \E withCreds \in BOOLEAN, writeOk \in BOOLEAN :
          RepeatableProxyWriteCall(withCreds, writeOk)

SpecHdr == InitHdr /\ [][NextHdr]_vars

\* ------------------------------------------- messages on the heap
\* Requests, responses and WebSocket messages are objects; a body buffer,
\* a message payload and a header map are objects of their own, so that two
\* messages may hold the same one.  Object i is cloned into CloneOf(i).
MaxChain == 2
MaxMutations == 2

OrigIds == 1..MaxChain

ObjIds == 1..(2 * MaxChain)

CloneOf(i) == i + MaxChain

ArrKeys == ({"req", "rsp", "msg"} \X ObjIds) \cup {<<"new", 1>>}

HdrKeys == {"req", "rsp"} \X ObjIds

NoHeader == [CL |-> <<>>, X |-> ""]

EmptyHeap ==
    [reqs |-> [i \in ObjIds |-> [live |-> FALSE]],
     rsps |-> [i \in ObjIds |-> [live |-> FALSE]],
     msgs |-> [i \in ObjIds |-> [live |-> FALSE]],
     arrs |-> [k \in ArrKeys |-> <<>>],
     hdrs |-> [k \in HdrKeys |-> NoHeader]]

\* the message an object stands for: its own fields, the bytes of its body
\* buffer, the entries of its header map
ReqVal(h, r) ==
    LET o == h.reqs[r]
    IN  [o.v EXCEPT !.bodyBytes = h.arrs[o.body], !.Header = h.hdrs[o.hdr],
                    !.Body = BodyReader(h.arrs[o.body])]

RspVal(h, r) ==
    LET o == h.rsps[r]
    IN  [o.v EXCEPT !.bodyBytes = h.arrs[o.body], !.Header = h.hdrs[o.hdr],
                    !.Body = BodyReader(h.arrs[o.body])]

\* a newly built ProxyRequest: a new object with a new body buffer and a
\* new header map, no associated messages
PutReq(h, r, val) ==
    [h EXCEPT !.reqs[r] = [live |-> TRUE,
                           v |-> [val EXCEPT !.bodyBytes = <<>>, !.Header = NoHeader,
                                             !.Body = BodyReader(<<>>)],
                           body |-> <<"req", r>>, hdr |-> <<"req", r>>,
                           Unmangled |-> 0, ServerResponse |-> 0,
                           WSMessages |-> <<>>],
              !.arrs[<<"req", r>>] = val.bodyBytes,
              !.hdrs[<<"req", r>>] = val.Header]

PutRsp(h, r, val) ==
    [h EXCEPT !.rsps[r] = [live |-> TRUE,
                           v |-> [val EXCEPT !.bodyBytes = <<>>, !.Header = NoHeader,
                                             !.Body = BodyReader(<<>>)],
                           body |-> <<"rsp", r>>, hdr |-> <<"rsp", r>>,
                           Unmangled |-> 0],
              !.arrs[<<"rsp", r>>] = val.bodyBytes,
              !.hdrs[<<"rsp", r>>] = val.Header]

\* ProxyWSMessage.Clone, lines 696-704: the slice Message and the pointer
\* Request are copied as they are
MsgClone(h, m) ==
    [h EXCEPT !.msgs[CloneOf(m)] =
                 [live |-> TRUE, Type |-> h.msgs[m].Type,
                  Message |-> h.msgs[m].Message,
                  Direction |-> h.msgs[m].Direction,
                  Request |-> h.msgs[m].Request, Unmangled |-> 0, DbId |-> ""]]

\* ProxyWSMessage.DeepClone, lines 706-713
RECURSIVE MsgDeepClone(_, _)
MsgDeepClone(h, m) ==
    LET n == CloneOf(m)
        u == h.msgs[m].Unmangled
        h1 == [MsgClone(h, m) EXCEPT !.msgs[n].DbId = h.msgs[m].DbId]
    IN  IF u # 0 THEN [MsgDeepClone(h1, u) EXCEPT !.msgs[n].Unmangled = CloneOf(u)]
        ELSE h1

\* ProxyResponse.DeepClone, lines 631-638
RECURSIVE RspDeepClone(_, _)
RspDeepClone(h, r) ==
    LET n == CloneOf(r)
        u == h.rsps[r].Unmangled
        h1 == PutRsp(h, n, [RspClone(RspVal(h, r)) EXCEPT !.DbId = RspVal(h, r).DbId])
    IN  IF u # 0 THEN [RspDeepClone(h1, u) EXCEPT !.rsps[n].Unmangled = CloneOf(u)]
        ELSE h1

\* ProxyRequest.DeepClone, lines 450-452: the loop over req.WSMessages
RECURSIVE CloneWSMessages(_, _, _)
CloneWSMessages(h, r, i) ==
    IF i > Len(h.reqs[r].WSMessages) THEN h
    ELSE LET m == h.reqs[r].WSMessages[i]
             h1 == MsgDeepClone(h, m)
         IN  CloneWSMessages([h1 EXCEPT !.reqs[CloneOf(r)].WSMessages =
                                             Append(@, CloneOf(m))], r, i + 1)

\* ProxyRequest.DeepClone, lines 437-455
RECURSIVE DeepClone(_, _)
DeepClone(h, r) ==
    LET n == CloneOf(r)
        u == h.reqs[r].Unmangled
        sr == h.reqs[r].ServerResponse
        h1 == PutReq(h, n, [Clone(ReqVal(h, r)) EXCEPT !.DbId = ReqVal(h, r).DbId])
        h2 == IF u # 0
              THEN [DeepClone(h1, u) EXCEPT !.reqs[n].Unmangled = CloneOf(u)]
              ELSE h1
        h3 == IF sr # 0
              THEN [RspDeepClone(h2, sr) EXCEPT !.reqs[n].ServerResponse = CloneOf(sr)]
              ELSE h2
    IN  CloneWSMessages(h3, r, 1)

\* what an object refers to
Refs(h, n) ==
    CASE n[1] = "req" ->
           LET o == h.reqs[n[2]]
           IN  {<<"arr", o.body>>, <<"hdr", o.hdr>>}
                 \cup (IF o.Unmangled # 0 THEN {<<"req", o.Unmangled>>} ELSE {})
                 \cup (IF o.ServerResponse # 0 THEN {<<"rsp", o.ServerResponse>>} ELSE {})
                 \cup {<<"msg", o.WSMessages[i]>> : i \in 1..Len(o.WSMessages)}
      [] n[1] = "rsp" ->
           LET o == h.rsps[n[2]]
           IN  {<<"arr", o.body>>, <<"hdr", o.hdr>>}
                 \cup (IF o.Unmangled # 0 THEN {<<"rsp", o.Unmangled>>} ELSE {})
      [] n[1] = "msg" ->
           LET o == h.msgs[n[2]]
           IN  {<<"arr", o.Message>>}
                 \cup (IF o.Unmangled # 0 THEN {<<"msg", o.Unmangled>>} ELSE {})
                 \cup (IF o.Request # 0 THEN {<<"req", o.Request>>} ELSE {})
      [] OTHER -> {}

\* everything reachable from the objects of S
RECURSIVE Reach(_, _)
Reach(h, S) ==
    LET next == S \cup UNION {Refs(h, n) : n \in S}
    IN  IF next = S THEN S ELSE Reach(h, next)

Content(h, n) ==
    CASE n[1] = "req" -> h.reqs[n[2]]
      [] n[1] = "rsp" -> h.rsps[n[2]]
      [] n[1] = "msg" -> h.msgs[n[2]]
      [] n[1] = "arr" -> h.arrs[n[2]]
      [] n[1] = "hdr" -> h.hdrs[n[2]]

\* the request under study: request 1 with, optionally, its unmangled
\* version, a server response (with its unmangled version) and a WebSocket
\* message (with its unmangled version) that names request 1 as its origin
BuildHeap(unm, sr, srUnm, ws, wsUnm) ==
    LET post == [Method |-> "POST", absolute |-> FALSE, RawQuery |-> <<>>, X |-> "x0",
                 Form |-> FALSE, cl |-> 2, chunked |-> FALSE, body |-> <<"x", "y">>]
        rsp == [cl |-> 2, chunked |-> FALSE, close |-> FALSE, X |-> "x0",
                body |-> <<"x", "y">>]
        msgOf(i, u) == [live |-> TRUE, Type |-> 1, Message |-> <<"msg", i>>,
                        Direction |-> 0, Request |-> 1, Unmangled |-> u, DbId |-> ""]
        h0 == PutReq(EmptyHeap, 1, ProxyRequestFromBytes(post, "h", DefaultPlainPort, FALSE))
        h1 == IF unm
              THEN [PutReq(h0, 2, ProxyRequestFromBytes(post, "h", DefaultPlainPort, FALSE))
                      EXCEPT !.reqs[1].Unmangled = 2]
              ELSE h0
        h2 == IF sr
              THEN [PutRsp(h1, 1, ProxyResponseFromBytes(rsp))
                      EXCEPT !.reqs[1].ServerResponse = 1]
              ELSE h1
        h3 == IF sr /\ srUnm
              THEN [PutRsp(h2, 2, ProxyResponseFromBytes(rsp))
                      EXCEPT !.rsps[1].Unmangled = 2]
              ELSE h2
        h4 == IF ws
              THEN [h3 EXCEPT !.msgs[1] = msgOf(1, IF wsUnm THEN 2 ELSE 0),
                              !.arrs[<<"msg", 1>>] = <<"m", "1">>,
                              !.reqs[1].WSMessages = <<1>>]
              ELSE h3
    IN  IF ws /\ wsUnm
        THEN [h4 EXCEPT !.msgs[2] = msgOf(2, 0), !.arrs[<<"msg", 2>>] = <<"m", "0">>]
        ELSE h4

\* req.DeepClone() is called on request 1
DeepCloneCall ==
    /\ store.pc = "built"
    /\ store' = [store EXCEPT !.pc = "cloned", !.h = DeepClone(store.h, 1),
                              !.clone = CloneOf(1), !.snap = store.h]
    /\ UNCHANGED <<interceptVars, codec, msg, dial>>

\* what the holder of the clone can get at
FromClone == Reach(store.h, {<<"req", store.clone>>})

\* msg.Message[0] = b on a message reached from the clone
WritePayloadByte(m, b) ==
    /\ store.pc = "cloned"
    /\ store.muts < MaxMutations
    /\ <<"msg", m>> \in FromClone
    /\ store' = [store EXCEPT !.h.arrs[store.h.msgs[m].Message][1] = b,
                              !.muts = @ + 1]
    /\ UNCHANGED <<interceptVars, codec, msg, dial>>

\* msg.Type = t on a message reached from the clone
SetMessageType(m, t) ==
    /\ store.pc = "cloned"
    /\ store.muts < MaxMutations
    /\ <<"msg", m>> \in FromClone
    /\ store' = [store EXCEPT !.h.msgs[m].Type = t, !.muts = @ + 1]
    /\ UNCHANGED <<interceptVars, codec, msg, dial>>

\* Header.Set("X", v) on a request or response reached from the clone
SetHeader(kind, i, v) ==
    /\ store.pc = "cloned"
    /\ store.muts < MaxMutations
    /\ <<kind, i>> \in FromClone
    /\ LET o == IF kind = "req" THEN store.h.reqs[i] ELSE store.h.rsps[i]
       IN  store' = [store EXCEPT !.h.hdrs[o.hdr].X = v, !.muts = @ + 1]
    /\ UNCHANGED <<interceptVars, codec, msg, dial>>

\* SetBodyBytes(bs) on a request reached from the clone: the buffer is the
\* caller's slice, the header map is written in place
HeapSetBodyBytes(r, bs) ==
    /\ store.pc = "cloned"
    /\ store.muts < MaxMutations
    /\ ~store.fresh
    /\ <<"req", r>> \in FromClone
    /\ store' = [store EXCEPT !.h.arrs[<<"new", 1>>] = bs,
                              !.h.reqs[r].body = <<"new", 1>>,
                              !.h.hdrs[store.h.reqs[r].hdr].CL = <<FormatInt(Len(bs))>>,
                              !.fresh = TRUE,
                              !.muts = @ + 1]
    /\ UNCHANGED <<interceptVars, codec, msg, dial>>

InitClone ==
    /\ InitListener
    /\ codec = NoCodec
    /\ msg = NoMsg
    /\ dial = NoDial
    /\ scripts = [s \in Socks |-> {}]
    /\ \E unm \in BOOLEAN, sr \in BOOLEAN, srUnm \in BOOLEAN, ws \in BOOLEAN,
          wsUnm \in BOOLEAN :
          /\ srUnm => sr
          /\ wsUnm => ws
          /\ store = [pc |-> "built", h |-> BuildHeap(unm, sr, srUnm, ws, wsUnm),
                      clone |-> 0, snap |-> EmptyHeap, fresh |-> FALSE, muts |-> 0]

NextClone ==
    \/ DeepCloneCall
    \/ \E m \in ObjIds, b \in {"z"} : WritePayloadByte(m, b)
    \/ \E m \in ObjIds, t \in {2} : SetMessageType(m, t)
    \/ \E kind \in {"req", "rsp"}, i \in ObjIds, v \in {"x1"} : SetHeader(kind, i, v)
    \/ \E r \in ObjIds, bs \in {<<>>, <<"x", "y", "z">>} : HeapSetBodyBytes(r, bs)

SpecClone == InitClone /\ [][NextClone]_vars

\* ------------------------------------------- submitRequest and wsDial
\* what the proxy answers to CONNECT: 200, 407, or nothing (0: read error)
ConnectStatuses == {StatusOK, 407, 0}

DestPorts == {DefaultPlainPort, DefaultTLSPort, 8080}

\* submitRequest, lines 768-775, with CONNECT for every HTTP proxy
NeedsConnectOnlyForTLS(fn, useProxy, proxyIsSOCKS, destUseTLS) ==
    useProxy /\ ~proxyIsSOCKS /\ destUseTLS

\* submitRequest, lines 768-775, and wsDial, lines 367-370: is the CONNECT
\* handshake performed on the dialed connection
NeedsConnect(fn, useProxy, proxyIsSOCKS, destUseTLS) ==
    useProxy /\ ~proxyIsSOCKS /\ (fn = "wsDial" \/ destUseTLS)

\* a proxyFormat that is set for every HTTP proxy
ProxyFormatAnyDest(useProxy, proxyIsSOCKS, destUseTLS) ==
    useProxy /\ ~proxyIsSOCKS

\* submitRequest, lines 743-776: proxyFormat
ProxyFormat(useProxy, proxyIsSOCKS, destUseTLS) ==
    useProxy /\ ~proxyIsSOCKS /\ ~destUseTLS

Event(op, arg) == [op |-> op, arg |-> arg]

\* a PerformConnect that takes any answer for success
PerformConnectAnyStatus(status) == status # 0

\* PerformConnect, lines 85-92: the answer must be read and be 200
PerformConnect(status) == status = StatusOK

\* submitRequest(req, useProxy, ..., proxyIsSOCKS) or wsDial(...) is called;
\* req.ServerResponse holds what it held before the call
DialCall(fn, useProxy, proxyIsSOCKS, destUseTLS, destPort, isWS) ==
    /\ dial.pc = "idle"
    /\ dial' = [pc |-> "dial", fn |-> fn, useProxy |-> useProxy,
                proxyIsSOCKS |-> proxyIsSOCKS, DestUseTLS |-> destUseTLS,
                DestPort |-> destPort, IsWSUpgrade |-> isWS,
                events |-> <<>>, err |-> FALSE, closeOnReturn |-> FALSE,
                ServerResponse |-> "before"]
    /\ UNCHANGED <<interceptVars, codec, msg, store>>

\* lines 744-783 and 343-377: the connection is dialed, to the SOCKS proxy
\* for the destination, to the HTTP proxy, or to the destination; a failed
\* dial returns; submitRequest defers conn.Close() in every branch, wsDial
\* in the SOCKS branch only
Dial(ok) ==
    /\ dial.pc = "dial"
    /\ LET to == IF ~dial.useProxy THEN "dest"
                 ELSE IF dial.proxyIsSOCKS THEN "socks" ELSE "proxy"
       IN  dial' = [dial EXCEPT
              !.events = Append(@, Event("dial", to)),
              !.err = ~ok,
              !.closeOnReturn = ok /\ (dial.fn = "submitRequest" \/ to = "socks"),
              !.pc = IF ~ok THEN "return"
                     ELSE IF NeedsConnect(dial.fn, dial.useProxy, dial.proxyIsSOCKS,
                                          dial.DestUseTLS)
                     THEN "connect" ELSE "wrap"]
    /\ UNCHANGED <<interceptVars, codec, msg, store>>

\* PerformConnect, lines 83-84: CONNECT DestHost:DestPort is written
ConnectWrite ==
    /\ dial.pc = "connect"
    /\ dial' = [dial EXCEPT !.events = Append(@, Event("writeConnect", dial.DestPort)),
                            !.pc = "connectRead"]
    /\ UNCHANGED <<interceptVars, codec, msg, store>>

\* a caller that goes on after a failed PerformConnect
ConnectReadGoingOn(status) ==
    /\ dial.pc = "connectRead"
    /\ dial' = [dial EXCEPT !.events = Append(@, Event("readConnect", status)),
                            !.err = ~PerformConnect(status),
                            !.pc = "wrap"]
    /\ UNCHANGED <<interceptVars, codec, msg, store>>

\* PerformConnect, lines 85-92: the answer is read; submitRequest, lines
\* 769-771, and wsDial, lines 368-370, return its error
ConnectRead(status) ==
    /\ dial.pc = "connectRead"
    /\ dial' = [dial EXCEPT !.events = Append(@, Event("readConnect", status)),
                            !.err = ~PerformConnect(status),
                            !.pc = IF PerformConnect(status) THEN "wrap" ELSE "return"]
    /\ UNCHANGED <<interceptVars, codec, msg, store>>

\* lines 785-790 and 379-384: tls.Client over the connection
Wrap ==
    /\ dial.pc = "wrap"
    /\ dial' = [dial EXCEPT
                  !.events = IF dial.DestUseTLS THEN Append(@, Event("tls", "client"))
                             ELSE @,
                  !.pc = IF dial.fn = "submitRequest" THEN "send" ELSE "wsdial"]
    /\ UNCHANGED <<interceptVars, codec, msg, store>>

\* lines 792-796 with submit, lines 252-270: the request is written, in
\* proxy form by SubmitProxy, in origin form by Submit; over TLS the write
\* starts with the handshake, which may fail
SubmitWrite(handshakeOk) ==
    /\ dial.pc = "send"
    /\ LET proxyFormat == ProxyFormat(dial.useProxy, dial.proxyIsSOCKS, dial.DestUseTLS)
           failed == dial.DestUseTLS /\ ~handshakeOk
       IN  dial' = [dial EXCEPT
              !.events = IF failed THEN @
                         ELSE Append(@, Event("writeRequest",
                                              IF proxyFormat THEN "absolute" ELSE "origin")),
              !.err = failed,
              !.pc = IF failed THEN "return" ELSE "recv"]
    /\ UNCHANGED <<interceptVars, codec, msg, store>>

\* submit, lines 272-281: one response is read and, when that succeeds,
\* stored in req.ServerResponse
SubmitRead(ok) ==
    /\ dial.pc = "recv"
    /\ dial' = [dial EXCEPT !.events = Append(@, Event("readResponse", ok)),
                            !.ServerResponse = IF ok THEN "submit" ELSE @,
                            !.err = ~ok, !.pc = "return"]
    /\ UNCHANGED <<interceptVars, codec, msg, store>>

\* ProxyRequest.WSDial, lines 284-318: a request that is not an upgrade is
\* refused; the dialer gets the connection from NetDial, starts TLS on it
\* for a wss URL, and performs the WebSocket handshake, whose response is
\* stored in req.ServerResponse
WSHandshake(ok) ==
    /\ dial.pc = "wsdial"
    /\ dial' = [dial EXCEPT
              !.events = IF ~dial.IsWSUpgrade THEN @
                         ELSE (IF dial.DestUseTLS THEN Append(@, Event("tls", "dialer"))
                               ELSE @) \o <<Event("wsHandshake", ok)>>,
              !.ServerResponse = IF dial.IsWSUpgrade /\ ok THEN "WSDial" ELSE @,
              !.err = ~dial.IsWSUpgrade \/ ~ok,
              !.pc = "return"]
    /\ UNCHANGED <<interceptVars, codec, msg, store>>

\* the function returns: the deferred conn.Close() runs
DialReturn ==
    /\ dial.pc = "return"
    /\ dial' = [dial EXCEPT
                  !.events = IF dial.closeOnReturn THEN Append(@, Event("close", ""))
                             ELSE @,
                  !.pc = "done"]
    /\ UNCHANGED <<interceptVars, codec, msg, store>>

InitDial ==
    /\ InitListener
    /\ SideIdle
    /\ scripts = [s \in Socks |-> {}]

NextDial ==
    \/ \E fn \in {"submitRequest", "wsDial"}, useProxy \in BOOLEAN,
          proxyIsSOCKS \in BOOLEAN, destUseTLS \in BOOLEAN, destPort \in DestPorts,
          isWS \in BOOLEAN :
          DialCall(fn, useProxy, proxyIsSOCKS, destUseTLS, destPort, isWS)
    \/ \E ok \in BOOLEAN : Dial(ok)
    \/ ConnectWrite
    \/ \E status \in ConnectStatuses : ConnectRead(status)
    \/ Wrap
    \/ \E handshakeOk \in BOOLEAN : SubmitWrite(handshakeOk)
    \/ \E ok \in BOOLEAN : SubmitRead(ok)
    \/ \E ok \in BOOLEAN : WSHandshake(ok)
    \/ DialReturn

SpecDial == InitDial /\ [][NextDial]_vars

\* -------------------------------------------------------------- claims
\* translations that reached the end of translateConn: descriptor set,
\* connection offered on outputConns
Translated == {s \in Socks : sock[s].pc \in {"send", "surfaced"}}

\* C1: after Close() returns, no goroutine the listener spawned is still
\* running: not the translator, not an accept worker, not the translateConn
\* of any accepted socket.
C1_CloseDrains ==
    closer.returns > 0 =>
        /\ <<"translator", 0>> \notin liveAtReturn
        /\ \A l \in Subs : <<"worker", l>> \notin liveAtReturn
        /\ \A s \in Socks : <<"translation", s>> \notin liveAtReturn

\* C2: an Accept() call that starts after Close() has returned does not
\* block, returns no connection and does not crash: every step taken while
\* it is in its select leaves the closed error available, the list of
\* returned connections as it was, and the process alive in Accept.
C2_AcceptAfterCloseFails ==
    [][(consumer.afterClose /\ consumer.pc = "select")
         => /\ chClosed["outputConnDone"]
            /\ accepted' = accepted
            /\ consumer'.pc # "panicked"]_vars

\* C3: every connection Accept() returned has a finalized descriptor whose
\* port is not -1 and lies in 1..65535.
C3_PortInRange ==
    \A s \in Accepted :
        /\ sock[s].Addr.Port # UnknownPort
        /\ sock[s].Addr.Port \in 1..65535

\* C4: the descriptor's port of a translated connection is the port of the
\* request target when the target carries host:port, and otherwise 443 if
\* TLS was started on the connection and 80 if it was not.
C4_PortFromTargetOrGuess ==
    \A s \in Translated :
        LET c == sock[s]
        IN  c.Addr.Port =
              IF c.script.target.hasPort
              THEN DecimalValue(c.script.target.port)
              ELSE IF c.layer = "tls" THEN DefaultTLSPort ELSE DefaultPlainPort

\* a CONNECT to a bare host answered with bytes that are not TLS was
\* returned by Accept with port 80, and so was a CONNECT to host:443 with
\* (host, 443, false)
C4_Witness ==
    /\ \E s \in Accepted :
        /\ sock[s].script.method = "CONNECT"
        /\ ~sock[s].script.target.hasPort
        /\ sock[s].layer = "buf"
        /\ sock[s].Addr = [Host |-> "h", Port |-> DefaultPlainPort, UseTLS |-> FALSE]

\* C5: useTLS of a translated connection is true exactly when the first
\* request was CONNECT and the first byte the client sent after it was
\* 0x16; a request that is not CONNECT starts no TLS, has useTLS false and
\* is pending on the connection when the connection is offered.
C5_UseTLSIffClientHello ==
    \A s \in Translated :
        LET c == sock[s]
            hello == /\ Len(c.script.rest) > 0
                     /\ WireAt(c.script, HdrLen + c.script.bodyLen + 1) = TLSHandshakeByte
        IN  /\ c.Addr.UseTLS = (c.script.method = "CONNECT" /\ hello)
            /\ c.script.method # "CONNECT"
                 => /\ c.layer = "raw"
                    /\ ~c.Addr.UseTLS
                    /\ (c.pc = "send" => c.readReq)

IsPrefix(p, q) == Len(p) <= Len(q) /\ p = SubSeq(q, 1, Len(p))

HeadOnly(seq) ==
    LET IsHead(t) == t.k \in {HeadTokens[i] : i \in 1..HdrLen}
    IN  SelectSeq(seq, IsHead)

FromWire(seq) ==
    LET IsWire(t) == t.k \in {"wire", "tls"}
    IN  SelectSeq(seq, IsWire)

\* C6: once a request is put back on a connection, the next Read returns
\* (a prefix of the serialized request, the pending request cleared), and
\* the request is delivered at most once.
C6_PutBackReadReturnsPrefix ==
    \A s \in Accepted :
        LET c == sock[s]
        IN  c.script.method # "CONNECT" =>
              /\ c.rd # "hung"
              /\ c.readReq => c.delivered = <<>>
              /\ ~c.readReq =>
                   \E n \in 1..Min(Len(c.delivered), Len(Serialize(c.request, HdrLen))) :
                       /\ SubSeq(c.delivered, 1, n) = SubSeq(Serialize(c.request, HdrLen), 1, n)
                       /\ HeadOnly(SubSeq(c.delivered, n + 1, Len(c.delivered))) = <<>>

\* C7: no byte the client sent after the head of its first request is lost
\* or reordered: what the consumer has read of them is the wire from the
\* first byte after the head on, without a gap, after the put-back head.
C7_NoByteLost ==
    \A s \in Accepted :
        LET c == sock[s]
            w == FromWire(c.delivered)
        IN  /\ \A i \in 1..Len(w) : w[i].v = HdrLen + i
            /\ IsPrefix(HeadOnly(c.delivered), c.delivered)

\* the literal answer to CONNECT: HTTP/1.1 200 Connection established, no headers
ConnectionEstablished ==
    [line |-> [major |-> 1, minor |-> 1, code |-> StatusOK,
               text |-> "Connection established"],
     headers |-> <<>>]

\* C8: for a CONNECT the translator writes exactly
\* HTTP/1.1 200 Connection established\r\n\r\n to the client, before it
\* peeks; for any other request it writes nothing.
C8_ConnectResponseLiteral ==
    \A s \in Socks :
        LET c == sock[s]
        IN  /\ c.pc \in {"peek", "send", "surfaced"} /\ c.script.method = "CONNECT"
                 => c.clientIn = <<ConnectionEstablished>>
            /\ c.layer # "raw" => c.clientIn # <<>>
            /\ c.script.method # "CONNECT" => c.clientIn = <<>>

\* C9: once RemoveListener(sub) has returned, sub is closed and no record
\* of inputListeners holds it, so that Close() does not close it again.
C9_RemovedListenerUnregistered ==
    \A l \in removeReturned :
        /\ subCloses[l] = 1
        /\ \A e \in inputListeners : e.Listener # l

\* C10: a failure of one translation ends that translation only: the
\* process does not crash in translateConn, the socket is not returned by
\* Accept, and the listener's state and sub-listeners are as they were.
C10_TranslationFailureContained ==
    /\ crashed \notin {"translation: nil caCert dereference",
                       "translation: send on closed channel"}
    /\ \A s \in Socks : sock[s].pc = "failed" => s \notin Accepted

\* C11: a step of Close() or of RemoveListener() leaves every connection
\* Accept() has returned as it was: its wrapped stream open (or closed by
\* the consumer), its destination descriptor and its pending request
\* unchanged.
C11_CloseLeavesSurfaced ==
    [][(\/ closer' # closer
        \/ toClose' # toClose
        \/ chClosed' # chClosed
        \/ removeReturned' # removeReturned)
         => \A s \in Accepted : sock'[s] = sock[s]]_vars

\* Close() has returned and the sub-listener was removed while a returned
\* connection was open with its request still pending
C11_Witness ==
    /\ closer.pc = "returned"
    /\ removeReturned # {}
    /\ \E s \in Accepted :
        /\ ~sock[s].closed
        /\ sock[s].readReq
        /\ sock[s].Addr = [Host |-> "h", Port |-> DefaultPlainPort, UseTLS |-> FALSE]

\* C12: the lifecycle state is Running until Close() and Stopped from then
\* on; once Stopped no call changes it, and a second Close() does not
\* crash.
C12_StoppedAbsorbing ==
    [][/\ State \in {ProxyRunning, ProxyStopped}
       /\ State = ProxyStopped
            => /\ State' = ProxyStopped
               /\ crashed' # "close of closed channel"]_vars

\* C13: decoding what EncodeRemoteAddr(h, p, t) returned gives back
\* (h, p, t) without error, for every port in 0..65535, both flags and
\* every host without a slash.
C13_CodecRoundTrip ==
    (/\ codec.pc = "roundtrip"
     /\ codec.port \in 0..65535
     /\ \A i \in 1..Len(codec.host) : codec.host[i] # "/")
        => codec.out = [host |-> codec.host, port |-> codec.port,
                        useTLS |-> codec.useTLS, err |-> FALSE]

\* ("h.c", 65535, true) went through "h.c/65535/1" and came back
C13_Witness ==
    /\ codec.pc = "roundtrip"
    /\ codec.str = <<"h", ".", "c", "/", "6", "5", "5", "3", "5", "/", "1">>
    /\ codec.out = [host |-> <<"h", ".", "c">>, port |-> 65535, useTLS |-> TRUE,
                    err |-> FALSE]

\* a decimal integer: an optional sign and one or more digits
IsIntegerText(t) ==
    LET digits == IF Len(t) > 0 /\ t[1] \in {"+", "-"} THEN SubSeq(t, 2, Len(t)) ELSE t
    IN  Len(digits) > 0 /\ AllDigits(digits)

\* the shape <host>/<port>/<0|1>
WellShapedAddr(str) ==
    LET parts == Split(str, "/")
    IN  /\ Len(parts) = 3
        /\ IsIntegerText(parts[2])
        /\ parts[3] \in {<<"0">>, <<"1">>}

\* C14: DecodeRemoteAddr returns an error for every string that is not of
\* the shape <host>/<port>/<0|1>.
C14_DecodeRejectsOtherShapes ==
    (codec.pc = "decoded" /\ ~WellShapedAddr(codec.str)) => codec.out.err

\* ProxyRequest.BodyBytes, ProxyResponse.BodyBytes: a copy of the body buffer
BodyBytes(m) == m.bodyBytes

\* C15: for a ProxyRequest and for a ProxyResponse, after construction and
\* after every mutator (Clone and DeepClone included), the Content-Length
\* header is the decimal length of the body buffer, and right after
\* SetBodyBytes(B), BodyBytes() is B.
C15_ContentLengthIsBodyLength ==
    msg.kind \in {"req", "rsp"} =>
        /\ msg.obj.Header.CL = <<FormatInt(Len(msg.obj.bodyBytes))>>
        /\ msg.lastSet # <<>> => BodyBytes(msg.obj) = msg.lastSet[1]

\* C17: successive RepeatableWrite / FullMessage calls on a message give
\* the same output, the output holds the whole body, and after each call
\* the body buffer, the headers and the body reader are as before the call.
C17_WriteRepeatable ==
    (msg.kind \in {"req", "rsp"} /\ Len(msg.outs) > 0) =>
        /\ \A i \in 1..Len(msg.outs) :
              /\ msg.outs[i] = msg.outs[1]
              /\ msg.outs[i].body = msg.obj.bodyBytes
        /\ msg.obj = msg.pre

\* C16: whatever is done through the result of DeepClone(), everything
\* reachable from the original request (its headers and body, its Unmangled
\* chain, its ServerResponse, its WebSocket messages with their payload
\* bytes and origin request) is as it was when DeepClone() was called.
C16_DeepCloneIndependent ==
    store.pc = "cloned" =>
        \A n \in Reach(store.snap, {<<"req", 1>>}) :
            Content(store.h, n) = Content(store.snap, n)

\* the events of a TLS submission through an HTTP proxy, in order
TunnelledSubmission(destPort) ==
    <<Event("dial", "proxy"), Event("writeConnect", destPort),
      Event("readConnect", StatusOK), Event("tls", "client"),
      Event("writeRequest", "origin"), Event("readResponse", TRUE)>>

HTTPProxy == dial.useProxy /\ ~dial.proxyIsSOCKS

EventsBefore(i) == {dial.events[j] : j \in 1..(i - 1)}

\* C18: a request with DestUseTLS submitted through an HTTP proxy puts on
\* the proxy socket, in this order: the dial, the CONNECT line for
\* DestHost:DestPort, the read of a 200 answer, the client TLS session, the
\* request in origin form, the read of one response.  A call that fails
\* stops at the failing event; the request is never written before the 200
\* answer to CONNECT was read.
C18_ConnectThenTLSThenOrigin ==
    (/\ dial.pc # "idle"
     /\ dial.fn = "submitRequest"
     /\ HTTPProxy
     /\ dial.DestUseTLS) =>
        LET core == SelectSeq(dial.events, LAMBDA e : e.op # "close")
            want == TunnelledSubmission(dial.DestPort)
        IN  /\ Len(core) <= Len(want)
            /\ \A i \in 1..Len(core) :
                  \/ core[i] = want[i]
                  \/ /\ i = Len(core)
                     /\ dial.pc \in {"return", "done"}
                     /\ dial.err
                     /\ core[i].op = want[i].op
            /\ (dial.pc = "done" /\ ~dial.err) => core = want

\* the whole sequence happened, for port 8080, and the call returned
C18_Witness ==
    /\ dial.pc = "done"
    /\ ~dial.err
    /\ dial.fn = "submitRequest"
    /\ dial.events = TunnelledSubmission(8080) \o <<Event("close", "")>>

\* C19: submitRequest writes the request in absolute-URI form exactly
\* when the call goes through an HTTP proxy to a destination without TLS,
\* and then sends no CONNECT; in every other topology it writes the origin
\* form, and it sends a CONNECT exactly when the topology is an HTTP proxy
\* with a TLS destination.
C19_ProxyFormIffPlainHTTPProxy ==
    (dial.pc # "idle" /\ dial.fn = "submitRequest") =>
        /\ \A i \in 1..Len(dial.events) :
              /\ dial.events[i].op = "writeRequest" =>
                    /\ dial.events[i].arg =
                         (IF HTTPProxy /\ ~dial.DestUseTLS THEN "absolute" ELSE "origin")
                    /\ (HTTPProxy /\ dial.DestUseTLS)
                         = (\E e \in EventsBefore(i) : e.op = "writeConnect")
              /\ dial.events[i].op = "writeConnect" => HTTPProxy /\ dial.DestUseTLS

\* a request went to a plain destination through an HTTP proxy in absolute
\* form, with nothing but the dial before it
C19_Witness ==
    /\ dial.pc = "done"
    /\ ~dial.err
    /\ dial.fn = "submitRequest"
    /\ HTTPProxy
    /\ ~dial.DestUseTLS
    /\ dial.events = <<Event("dial", "proxy"), Event("writeRequest", "absolute"),
                       Event("readResponse", TRUE), Event("close", "")>>

\* C20: a WebSocket dial through an HTTP proxy performs the CONNECT
\* handshake for DestHost:DestPort (written, and answered with 200) before
\* the WebSocket handshake, with or without TLS at the destination; a direct
\* or SOCKS5 dial sends no CONNECT; client TLS is on the connection at the
\* WebSocket handshake exactly when DestUseTLS is true.
C20_WSConnectAlwaysViaHTTPProxy ==
    (dial.pc # "idle" /\ dial.fn = "wsDial") =>
        \A i \in 1..Len(dial.events) :
            /\ dial.events[i].op = "wsHandshake" =>
                  /\ HTTPProxy =>
                        /\ Event("writeConnect", dial.DestPort) \in EventsBefore(i)
                        /\ Event("readConnect", StatusOK) \in EventsBefore(i)
                  /\ dial.DestUseTLS = (Event("tls", "client") \in EventsBefore(i))
            /\ dial.events[i].op = "writeConnect" => HTTPProxy

\* a WebSocket dial to a plain destination through an HTTP proxy did the
\* CONNECT handshake and then the WebSocket handshake
C20_Witness ==
    /\ dial.pc = "done"
    /\ ~dial.err
    /\ dial.fn = "wsDial"
    /\ dial.events = <<Event("dial", "proxy"), Event("writeConnect", DefaultPlainPort),
                       Event("readConnect", StatusOK), Event("wsHandshake", TRUE)>>

\* the call has read an answer to CONNECT that is not a 200 (0: the read
\* itself failed)
ConnectRefused ==
    \E i \in 1..Len(dial.events) :
        dial.events[i].op = "readConnect" /\ dial.events[i].arg # StatusOK

\* C21: PerformConnect fails unless the proxy's answer was read and has
\* status 200; once it failed, in submitRequest or in wsDial, the call is
\* returning an error, and it has written no request, performed no WebSocket
\* handshake, started no TLS session and left req.ServerResponse as it was.
C21_ConnectErrorStopsCall ==
    (dial.pc # "idle" /\ ConnectRefused) =>
        /\ dial.pc \in {"return", "done"}
        /\ dial.err
        /\ \A i \in 1..Len(dial.events) :
              dial.events[i].op \notin {"writeRequest", "wsHandshake", "tls", "readResponse"}
        /\ dial.ServerResponse = "before"

\* wsDial to a TLS destination returned after the proxy answered 407
C21_Witness ==
    /\ dial.pc = "done"
    /\ dial.fn = "wsDial"
    /\ dial.DestUseTLS
    /\ dial.IsWSUpgrade
    /\ Event("readConnect", 407) \in {dial.events[i] : i \in 1..Len(dial.events)}

\* C22: RepeatableProxyWrite with credentials returns with the header map
\* of the request as it was before the call, whether the write succeeded
\* or failed, whatever headers the request carried.
C22_HeaderMapRestored ==
    (/\ msg.kind = "hdr"
     /\ msg.call = "RepeatableProxyWrite"
     /\ msg.ret.withCreds) => msg.req.Header = msg.pre.Header

\* C23: IsWSUpgrade is true exactly when some value of a header named
\* Upgrade in any case contains "websocket" in any case; StripProxyHeaders
\* keeps the Connection header exactly for those requests and DestScheme
\* answers ws or wss exactly for them.
C23_UpgradeAnyCase ==
    msg.kind = "hdr" =>
        /\ msg.call = "IsWSUpgrade" => msg.ret = IsWSUpgradeAnyCase(msg.pre)
        /\ msg.call = "DestScheme" =>
              (msg.ret \in {"ws", "wss"}) = IsWSUpgradeAnyCase(msg.pre)
        /\ msg.call = "StripProxyHeaders" =>
              (Connection \in DOMAIN msg.req.Header)
                  = (Connection \in DOMAIN msg.pre.Header /\ IsWSUpgradeAnyCase(msg.pre))

\* C24: a Read with a pending request returns without error, with the
\* pending request cleared and n = min(len(b), length of the serialized
\* request) bytes, the first n of the serialized request; no later Read
\* delivers a byte of the rest of it.
C24_PendingReadTruncates ==
    \A s \in Accepted :
        LET c == sock[s]
            ser == Serialize(c.request, HdrLen)
            n == Min(c.pendingRead.b, Len(ser))
            rest == {ser[i] : i \in (n + 1)..Len(ser)}
        IN  c.pendingRead.b > 0 =>
              /\ c.rd # "hung"
              /\ ~c.readReq
              /\ c.pendingRead.n = n
              /\ ~c.pendingRead.err
              /\ SubSeq(c.delivered, 1, n) = SubSeq(ser, 1, n)
              /\ \A i \in (n + 1)..Len(c.delivered) : c.delivered[i] \notin rest

DialFailed == dial.err /\ Len(dial.events) = 1 /\ dial.events[1].op = "dial"

\* C26: when wsDial has returned a session, in any of the three topologies,
\* its connection has not been closed; when submitRequest has returned,
\* with or without an error, the connection it dialed has been closed, as
\* the last thing done to it.
C26_WSSessionOpenSubmitClosed ==
    dial.pc = "done" =>
        LET closes == SelectSeq(dial.events, LAMBDA e : e.op = "close")
        IN  /\ (dial.fn = "wsDial" /\ ~dial.err) => closes = <<>>
            /\ (dial.fn = "submitRequest" /\ ~DialFailed) =>
                  /\ Len(closes) = 1
                  /\ dial.events[Len(dial.events)].op = "close"

\* Close is in listenWg.Wait(), line 359, holding the mutex
CloseWaiting == closer.pc = "listeners" /\ toClose = {}

\* C27: Close returns in every interleaving.  No accept worker and no
\* translation is made to send on a channel Close has closed, and while
\* Close waits in listenWg.Wait() every goroutine it waits for can return:
\* each accept worker that is left is in Accept on a sub-listener that was
\* closed.
C27_CloseAlwaysReturns ==
    /\ crashed \notin {"worker: send on closed channel",
                      "translation: send on closed channel"}
    /\ (Running /\ CloseWaiting) =>
          \A l \in LiveWorkers : worker[l].pc = "accept" /\ subCloses[l] > 0
====
